---- MODULE Spec2Model ----
(***************************************************************************)
(* Model of the ESLint flat-config composer `customize` of src/eslint.ts,   *)
(* of its earlier variant and the prettier options in src/prettier.ts, and *)
(* of the two TSLint configuration modules in src/unnamed/part_000.        *)
(*                                                                         *)
(* JavaScript values are represented as follows.                           *)
(*   object          -> record / function keyed by property name; an       *)
(*                      absent property is an absent key                   *)
(*   array           -> sequence                                           *)
(*   string, boolean -> string, boolean                                    *)
(*   a rule value (string | array) is tagged: S(v) a string, A(v) an array *)
(*   whose elements are S(..), N(..) or O(..) (an options object, kept as  *)
(*   its source text)                                                      *)
(*   a reference to an object that lives outside the call (a module-level  *)
(*   constant or an object of an imported module) -> Ref(address), with    *)
(*   the object itself stored in `heap` under that address                 *)
(* Object literals evaluated inside customize are fresh on every call and  *)
(* are stored by value.                                                    *)
(***************************************************************************)
EXTENDS Integers, Sequences, FiniteSets, TLC

VARIABLES
  heap,      \* objects that outlive a call: `shared` and imported modules
  cypressRecommended, \* content of eslint-plugin-cypress/flat configs.recommended
  pc,        \* position of the running call inside customize
  options,   \* the options record of the running (or last) call
  config,    \* the local array `config` of the running (or last) call
  required,  \* modules passed to require() by the running (or last) call
  calls,     \* completed calls, in order: options, returned array, requires
  mutations, \* number of mutations the caller applied to returned data
  host,      \* what the configuration modules find installed: the imported rule
             \* sets, the core module table, the project's package.json
  loadPc,    \* position of the evaluation of the import-order-aware TSLint module
             \* ("used" once the linter has taken the exported document)
  bindings,  \* module-scope constants of the configuration modules evaluated so far
  fsLog      \* file system operations on package.json, in order

customizeVars == <<heap, cypressRecommended, pc, options, config, required, calls, mutations>>
loadVars == <<host, loadPc, bindings, fsLog>>
vars == <<heap, cypressRecommended, pc, options, config, required, calls, mutations,
          host, loadPc, bindings, fsLog>>

\* ---------------------------------------------------------------- bounds
MaxCalls == 2
MaxMutations == 1

\* ------------------------------------------------------- value encoding
S(v) == [s |-> v]
N(v) == [n |-> v]
O(v) == [o |-> v]
A(v) == [a |-> v]
Ref(addr) == [ref |-> addr]
IsRef(v) == DOMAIN v = {"ref"}

\* the empty object literal {}
EmptyObject == [k \in {} |-> S("")]

\* object spread { ...a, ...b }: keys of b replace keys of a
Spread(a, b) ==
  [k \in DOMAIN a \cup DOMAIN b |-> IF k \in DOMAIN b THEN b[k] ELSE a[k]]

\* Array.prototype.push(...items)
PushFront(array, items) == items \o array

PushOverwrite(array, items) ==
  IF Len(array) > 4 THEN SubSeq(array, 1, Len(array) - 1) \o items ELSE array \o items

Push(array, items) == array \o items

\* the value an address or a by-value object stands for
Deref(h, v) == IF IsRef(v) THEN h[v.ref] ELSE v

\* ------------------------------------------------- imported module data
\* Sample content of the imported rule sets and globals; only their role
\* (spread first, overridden by the authored keys) matters to customize.
JsRecommendedRules ==
  ( "no-unused-vars" :> S("error") @@
    "no-debugger" :> S("error") @@
    "no-constant-condition" :> S("error") @@
    "no-fallthrough" :> S("error") )

GlobalsNode == [ process |-> "readonly", require |-> "readonly", module |-> "readonly" ]

GlobalsBrowser == [ window |-> "readonly", document |-> "readonly" ]

GlobalsMocha == [ describe |-> "readonly", it |-> "readonly", before |-> "readonly" ]

GlobalsJest == [ describe |-> "readonly", it |-> "readonly", expect |-> "readonly", jest |-> "readonly" ]

VitestEnvGlobals == [ describe |-> "writable", it |-> "writable", vi |-> "writable" ]

TsEslintRecommendedRules ==
  ( "no-unused-vars" :> S("off") @@
    "no-var" :> S("error") @@
    "prefer-const" :> S("error") )

TsRecommendedRules ==
  ( "@typescript-eslint/no-explicit-any" :> S("error") @@
    "@typescript-eslint/ban-ts-comment" :> S("error") @@
    "@typescript-eslint/no-unused-vars" :> S("error") @@
    "@typescript-eslint/no-var-requires" :> S("error") )

ReactRecommendedRules ==
  ( "react/display-name" :> S("error") @@
    "react/prop-types" :> S("error") @@
    "react/jsx-key" :> S("error") )

JestRecommendedRules ==
  ( "jest/expect-expect" :> S("warn") @@
    "jest/no-alias-methods" :> S("error") @@
    "jest/no-conditional-expect" :> S("error") @@
    "jest/no-disabled-tests" :> S("warn") @@
    "jest/no-standalone-expect" :> S("error") @@
    "jest/valid-title" :> S("error") @@
    "jest/no-focused-tests" :> S("error") )

VitestRecommendedRules ==
  ( "vitest/expect-expect" :> S("error") @@
    "vitest/valid-title" :> S("error") @@
    "vitest/prefer-to-be" :> S("error") )

MochaRecommendedRules ==
  ( "mocha/no-exclusive-tests" :> S("warn") @@
    "mocha/no-skipped-tests" :> S("warn") @@
    "mocha/no-setup-in-describe" :> S("error") @@
    "mocha/no-mocha-arrows" :> S("error") @@
    "mocha/no-exports" :> S("error") )

CypressRecommendedRules ==
  ( "cypress/no-assigning-return-values" :> S("error") @@
    "cypress/no-unnecessary-waiting" :> S("error") @@
    "cypress/unsafe-to-chain-command" :> S("error") )

\* What configs.recommended of eslint-plugin-cypress/flat may look like: a
\* flat config object, with or without its own `name` and `files`.
CypressRecommendedContents ==
  LET core == [ plugins |-> [ cypress |-> "eslint-plugin-cypress" ],
                rules |-> CypressRecommendedRules,
                languageOptions |-> [ globals |-> [ cy |-> "readonly", Cypress |-> "readonly" ] ] ]
  IN { core,
       Spread(core, [ name |-> "cypress/recommended" ]),
       Spread(core, [ name |-> "cypress/recommended", files |-> << "cypress/**/*.cy.js" >> ]) }

\* module-level objects that customize stores by reference
SharedNoUnusedVars == A(<< S("error"), O("{ varsIgnorePattern: '^_', args: 'none' }") >>)

InitialHeap ==
  ( "shared.no-unused-vars" :> SharedNoUnusedVars @@
    "js.configs.recommended.rules" :> JsRecommendedRules @@
    "globals.node" :> GlobalsNode @@
    "globals.browser" :> GlobalsBrowser @@
    "globals.mocha" :> GlobalsMocha @@
    "vitestPlugin.environments.env.globals" :> VitestEnvGlobals )

\* --------------------------------------------------------------- options
OptionKeys ==
  { "console", "disableTypeChecked", "indent", "testsDir",
    "cypress", "jest", "mocha", "react", "vitest" }

\* every field given; "warn" is a console value outside the declared union
FullOptions ==
  [ console : { "ban", "ban-log", "allow", "warn" },
    disableTypeChecked : { << "dangerfile.ts", "scripts/build.ts" >> },
    indent : { S("tab") },
    testsDir : { "src" },
    cypress : { TRUE },
    jest : { TRUE },
    mocha : { TRUE },
    react : BOOLEAN,
    vitest : { TRUE } ]

\* an options record gives any subset of the fields
OptionsRecords ==
  { [ k \in K |-> f[k] ] : f \in FullOptions, K \in SUBSET OptionKeys }

\* destructuring with a default: `{ key = dflt } = o`
Default(o, key, dflt) == IF key \in DOMAIN o THEN o[key] ELSE dflt

disableTypeChecked == Default(options, "disableTypeChecked", << >>)
indentAlwaysDefault == N(2)

indent == Default(options, "indent", N(2))
testsDirTypoTolerant ==
  IF "testDir" \in DOMAIN options THEN options.testDir
  ELSE Default(options, "testsDir", "{spec,test,tests}")

testsDir == Default(options, "testsDir", "{spec,test,tests}")
cypress == Default(options, "cypress", FALSE)
jestDefaultTrue == Default(options, "jest", TRUE)
jest == Default(options, "jest", FALSE)
mocha == Default(options, "mocha", FALSE)
react == Default(options, "react", FALSE)
vitest == Default(options, "vitest", FALSE)

consoleUsageReactOnly == IF react THEN "ban-log" ELSE "allow"

consoleUsage ==
  IF "console" \in DOMAIN options
  THEN options.console
  ELSE (IF react THEN "ban-log" ELSE "allow")

\* ------------------------------------------------- the fixed fragments
\* Rule maps list the keys whose value depends on the options or is
\* overridden by a later spread, plus a sample of the constant entries.
IgnoresFragment ==
  [ ignores |-> << "node_modules", "build", "coverage", ".yalc", "vite.config.ts.*" >> ]

RecommendedJsFragment ==
  [ name |-> "recommended/js",
    files |-> << "**/*.?(m|c)[jt]s?(x)" >>,
    rules |-> Ref("js.configs.recommended.rules"),
    languageOptions |-> [ globals |-> Ref("globals.node") ],
    plugins |-> ( "@stylistic" :> "stylistic.rules" ) ]

RecommendedTsFragment ==
  [ name |-> "recommended/ts",
    files |-> << "**/*.?(m|c)ts?(x)" >>,
    languageOptions |-> [ parser |-> "tsParser", parserOptions |-> [ project |-> S("true") ] ],
    plugins |-> ( "@typescript-eslint" :> "tsPlugin.rules" @@ "import" :> "importPlugin" ),
    settings |-> ( "import-x/resolver" :> "{ typescript: { alwaysTryTypes: true } }" ),
    rules |-> Spread(TsEslintRecommendedRules, TsRecommendedRules) ]

WorkaroundFragmentOptionReplaces ==
  [ name |-> "workaround-for-files-not-included-in-tsconfig",
    files |-> IF "disableTypeChecked" \in DOMAIN options
              THEN disableTypeChecked ELSE << "*.config.ts", "*.setup.ts" >>,
    languageOptions |-> [ parserOptions |-> [ project |-> S("null") ] ] ]

WorkaroundFragment ==
  [ name |-> "workaround-for-files-not-included-in-tsconfig",
    files |-> << "*.config.ts", "*.setup.ts" >> \o disableTypeChecked,
    languageOptions |-> [ parserOptions |-> [ project |-> S("null") ] ] ]

\* const config = [ ... ]  (the array literal of four fragments)
BaseConfigReused ==
  (IF calls = << >> THEN << >> ELSE calls[Len(calls)].result)
    \o << IgnoresFragment, RecommendedJsFragment, RecommendedTsFragment, WorkaroundFragment >>

BaseConfig ==
  << IgnoresFragment, RecommendedJsFragment, RecommendedTsFragment, WorkaroundFragment >>

OverridesJsFragment ==
  [ name |-> "overrides/js",
    files |-> << "**/*.?(m|c)js?(x)" >>,
    rules |->
      ( "no-unused-vars" :> Ref("shared.no-unused-vars") @@
        "camelcase" :> S("error") @@
        "radix" :> A(<< S("error"), S("as-needed") >>) @@
        "no-array-constructor" :> S("error") @@
        "no-var" :> S("error") @@
        "prefer-const" :> S("error") @@
        "prefer-rest-params" :> S("error") @@
        "prefer-spread" :> S("error") ) ]

OverridesTsFragment ==
  [ name |-> "overrides/ts",
    files |-> << "**/*.?(m|c)ts?(x)" >>,
    rules |->
      ( "@typescript-eslint/no-explicit-any" :> S("off") @@
        "@typescript-eslint/ban-ts-comment" :> S("off") @@
        "@typescript-eslint/no-unused-vars" :> Ref("shared.no-unused-vars") @@
        "@typescript-eslint/no-var-requires" :> S("off") @@
        "@typescript-eslint/ban-tslint-comment" :> S("error") @@
        "@typescript-eslint/naming-convention" :>
           A(<< S("error"), O("{ selector: 'function', format: ['camelCase', 'PascalCase'] }"),
                O("{ selector: 'method', format: ['camelCase'] }"),
                O("{ selector: 'objectLiteralMethod', format: ['camelCase', 'snake_case'], leadingUnderscore: 'allowDouble' }"),
                O("{ selector: 'typeLike', format: ['PascalCase', 'UPPER_CASE'] }"),
                O("{ selector: 'import', format: ['camelCase', 'PascalCase'] }") >>) @@
        "@typescript-eslint/no-for-in-array" :> S("error") ) ]

\* ...(consoleUsage !== 'allow' && { 'no-console': ... }): spreading `false`
\* adds no key
NoConsoleAlwaysError == "no-console" :> S("error")

NoConsoleEntry ==
  IF consoleUsage # "allow"
  THEN "no-console" :>
         (IF consoleUsage = "ban-log"
          THEN A(<< S("error"), O("{ allow: ['error', 'warn', 'info'] }") >>)
          ELSE S("error"))
  ELSE EmptyObject

OverridesJsTsFragment ==
  [ name |-> "overrides/js-ts",
    files |-> << "**/*.?(m|c)[jt]s?(x)" >>,
    plugins |-> ( "import" :> "importPlugin" ),
    rules |->
      Spread(
        ( "no-constant-condition" :> A(<< S("error"), O("{ checkLoops: false }") >>) @@
          "no-fallthrough" :> A(<< S("error"), O("{ commentPattern: 'fallthrough' }") >>) @@
          "no-extra-semi" :> S("off") @@
          "no-mixed-spaces-and-tabs" :> S("off") @@
          "@stylistic/array-bracket-spacing" :> A(<< S("error"), S("never") >>) @@
          "@stylistic/indent" :>
             A(<< S("error"), indent, O("{ SwitchCase: 1, CallExpression: { arguments: 'off' }, ignoredNodes: [...] }") >>) @@
          "@stylistic/max-len" :> A(<< S("error"), N(120), O("{ ignoreComments: true, ... }") >>) @@
          "@stylistic/semi" :> S("error") @@
          "curly" :> A(<< S("error"), S("multi-line") >>) @@
          "eqeqeq" :> S("error") @@
          "import/no-duplicates" :> A(<< S("error"), O("{ 'prefer-inline': true }") >>) @@
          "import/order" :> A(<< S("error"), O("{ alphabetize: ..., groups: [...], pathGroups: [...] }") >>) @@
          "no-eval" :> S("error") @@
          "one-var" :> A(<< S("error"), S("never") >>) @@
          "prefer-arrow-callback" :> A(<< S("error"), O("{ allowNamedFunctions: true }") >>) ),
        NoConsoleEntry) ]

\* the three fragments of config.push( ... ) at "our rules and overrides"
OverrideFragmentsTwo ==
  << OverridesJsFragment, OverridesJsTsFragment >>

OverrideFragments ==
  << OverridesJsFragment, OverridesTsFragment, OverridesJsTsFragment >>

\* ---------------------------------------------- the optional fragments
ReactTsxFragment ==
  [ name |-> "react/tsx",
    files |-> << "**/*.?(m|c)tsx" >>,
    rules |->
      ( "@typescript-eslint/ban-types" :>
          A(<< S("error"), O("{ extendDefaults: true, types: { '{}': false } }") >>) ) ]

ReactJsxTsxFragment ==
  [ name |-> "react/jsx-tsx",
    files |-> << "**/*.?(m|c)[jt]sx" >>,
    languageOptions |->
      [ parserOptions |-> [ ecmaFeatures |-> [ jsx |-> TRUE ] ],
        globals |-> Ref("globals.browser") ],
    plugins |->
      ( "check-file" :> "checkFilePlugin" @@
        "react" :> "eslint-plugin-react" @@
        "react-hooks" :> "eslint-plugin-react-hooks" ),
    settings |-> [ react |-> "{ version: 'detect' }" ],
    rules |->
      Spread(
        Spread(
          ( "@stylistic/jsx-child-element-spacing" :> S("error") @@
            "@stylistic/jsx-closing-bracket-location" :> A(<< S("error"), S("line-aligned") >>) @@
            "@stylistic/jsx-indent" :> A(<< S("error"), indent >>) @@
            "@stylistic/jsx-indent-props" :> A(<< S("error"), indent >>) @@
            "@stylistic/jsx-wrap-multilines" :> S("error") ),
          ReactRecommendedRules),
        ( "react/jsx-no-bind" :> A(<< S("error"), O("{ allowArrowFunctions: true }") >>) @@
          "react/jsx-no-useless-fragment" :> A(<< S("error"), O("{ allowExpressions: true }") >>) @@
          "react-hooks/rules-of-hooks" :> S("error") @@
          "react-hooks/exhaustive-deps" :> S("error") )) ]

FileNamingFragment ==
  [ name |-> "file-naming-conventions",
    plugins |-> ( "check-file" :> "checkFilePlugin" ),
    rules |->
      ( "check-file/filename-naming-convention" :>
          A(<< S("error"),
               O("{ '**/!(index|routes|use*|with*).?(m|c)[jt]sx': 'PASCAL_CASE', '**/(use|with)*.?(m|c)[jt]sx': 'CAMEL_CASE', '**/*.less': 'CAMEL_CASE' }"),
               O("{ ignoreMiddleExtensions: true }") >>) ) ]

\* const ignoreInTestsDir = [`${testsDir}/**/_*`, `${testsDir}/**/*.skip.*`]
ignoreInTestsDir == << testsDir \o "/**/_*", testsDir \o "/**/*.skip.*" >>

JestFragmentFixedDir ==
  [ name |-> "jest",
    files |-> << "spec/**", "**/*.test.ts", "**/*.spec.ts", "**/__tests__/**" >>,
    plugins |-> [ jest |-> "eslint-plugin-jest" ],
    rules |-> Spread(JestRecommendedRules, ( "no-console" :> S("error") )) ]

JestFragment ==
  [ name |-> "jest",
    files |->
      << testsDir \o "/**/*.?(c|m)[jt]s?(x)",
         "**/__tests__/**/*.?(c|m)[jt]s?(x)",
         "**/*.{spec,test}.?(c|m)[jt]s?(x)" >>,
    languageOptions |->
      [ globals |->
          Spread(GlobalsJest,
                 [ DB |-> "readonly", GQL |-> "readonly", Setup |-> "readonly", app |-> "readonly" ]) ],
    plugins |-> [ jest |-> "eslint-plugin-jest" ],
    rules |->
      Spread(JestRecommendedRules,
        ( "jest/expect-expect" :> S("off") @@
          "jest/no-alias-methods" :> S("off") @@
          "jest/no-conditional-expect" :> S("off") @@
          "jest/no-disabled-tests" :> S("off") @@
          "jest/no-standalone-expect" :>
             A(<< S("error"), O("{ additionalTestBlockFunctions: [...] }") >>) @@
          "jest/valid-title" :>
             A(<< S("error"), O("{ ignoreTypeOfDescribeName: true, ignoreTypeOfTestName: true }") >>) @@
          "no-console" :> S("error") )) ]

\* a vitest fragment that leaves 'no-console' to the earlier fragments
VitestFragmentKeepsConsole ==
  [ name |-> "vitest",
    files |->
      << testsDir \o "/**/*.?(c|m)[jt]s?(x)",
         "**/__tests__/**/*.?(c|m)[jt]s?(x)",
         "**/*.{spec,test}.?(c|m)[jt]s?(x)" >>,
    languageOptions |-> [ globals |-> Ref("vitestPlugin.environments.env.globals") ],
    plugins |-> [ vitest |-> "eslint-plugin-vitest" ],
    rules |->
      Spread(VitestRecommendedRules,
        ( "vitest/valid-title" :> A(<< S("error"), O("{ ignoreTypeOfDescribeName: true }") >>) @@
          "vitest/prefer-to-be" :> S("off") @@
          "vitest/no-focused-tests" :> S("error") )) ]

VitestFragment ==
  [ name |-> "vitest",
    files |->
      << testsDir \o "/**/*.?(c|m)[jt]s?(x)",
         "**/__tests__/**/*.?(c|m)[jt]s?(x)",
         "**/*.{spec,test}.?(c|m)[jt]s?(x)" >>,
    languageOptions |-> [ globals |-> Ref("vitestPlugin.environments.env.globals") ],
    plugins |-> [ vitest |-> "eslint-plugin-vitest" ],
    rules |->
      Spread(VitestRecommendedRules,
        ( "vitest/valid-title" :> A(<< S("error"), O("{ ignoreTypeOfDescribeName: true }") >>) @@
          "vitest/prefer-to-be" :> S("off") @@
          "vitest/no-focused-tests" :> S("error") @@
          "no-console" :> S("error") )) ]

MochaFragment ==
  [ name |-> "mocha",
    files |->
      << testsDir \o "/**/*.?(c|m)[jt]s",
         "**/__tests__/**/*.?(c|m)[jt]s",
         "**/*.{spec,test}.?(c|m)[jt]s" >>,
    languageOptions |-> [ globals |-> Ref("globals.mocha") ],
    plugins |-> [ mocha |-> "eslint-plugin-mocha" ],
    rules |->
      Spread(MochaRecommendedRules,
        ( "mocha/no-exclusive-tests" :> S("error") @@
          "mocha/no-skipped-tests" :> S("off") @@
          "mocha/no-setup-in-describe" :> S("off") @@
          "prefer-arrow-callback" :> S("off") @@
          "mocha/prefer-arrow-callback" :> S("error") )) ]

SnapshotsIgnoreFragment == [ ignores |-> << "__snapshots__" >> ]

MochaIgnoreFragment ==
  [ name |-> "mocha/ignore",
    files |-> ignoreInTestsDir,
    rules |-> ( "mocha/no-exports" :> S("off") ) ]

\* the three fragments pushed by the mocha block
MochaFragmentsRulesOnly == << MochaFragment >>

MochaFragments == << MochaFragment, SnapshotsIgnoreFragment, MochaIgnoreFragment >>

\* { name, files, ...cypressPlugin.configs.recommended, rules: { ... } }
CypressFragment ==
  Spread(
    Spread(
      [ name |-> "cypress",
        files |->
          << testsDir \o "/**/*.?(c|m)[jt]s",
             "**/__tests__/**/*.?(c|m)[jt]s",
             "**/*.{spec,test}.?(c|m)[jt]s" >> ],
      cypressRecommended),
    [ rules |->
        Spread(cypressRecommended.rules, ( "mocha/no-mocha-arrows" :> S("off") )) ])

\* ------------------------------------------------------------ the calls
\* Options a caller passes.  The first call of a module instance takes any
\* options record; a later call repeats the options of an earlier call,
\* which keeps the call history small.
CallerOptions ==
  IF calls = << >>
  THEN OptionsRecords
  ELSE { calls[i].options : i \in 1..Len(calls) }

\* `if (mocha || cypress)`
MochaEnabledOwnFlag == mocha

MochaEnabled == mocha \/ cypress

\* ------------------------------------------------- the host environment
\* Strings that are built or matched character by character (module names,
\* dependency names, import paths, regular expression sources) are
\* sequences of one-character strings.
Lodash == << "l", "o", "d", "a", "s", "h" >>
LeftPad == << "l", "e", "f", "t", "-", "p", "a", "d" >>
SocketIo == << "s", "o", "c", "k", "e", "t", ".", "i", "o" >>
Fs == << "f", "s" >>
Path == << "p", "a", "t", "h" >>
FsPromises == << "f", "s", "/", "p", "r", "o", "m", "i", "s", "e", "s" >>
StreamWrap == << "_", "s", "t", "r", "e", "a", "m", "_", "w", "r", "a", "p" >>
Sys == << "s", "y", "s" >>

\* a TSLint rule value: a boolean, or an array [enabled, ...options]
B(v) == [b |-> v]

\* sample contents of tslint-config-airbnb's and tslint-react's `rules`
AirbnbRuleSets ==
  { ( "align" :> A(<< B(TRUE), S("arguments"), S("parameters") >>) @@
      "semicolon" :> A(<< B(TRUE), S("always") >>) @@
      "trailing-comma" :> A(<< B(TRUE), O("{ multiline: 'always', singleline: 'never' }") >>) @@
      "no-increment-decrement" :> B(TRUE) @@
      "function-name" :> A(<< B(TRUE), O("{ 'function-regex': /^[a-z$][\\w\\d]+$/ }") >>) @@
      "prefer-array-literal" :> B(TRUE) @@
      "no-this-assignment" :> A(<< B(TRUE), [obj |-> [ allowedNames |-> S("^self$") ]] >>) @@
      "quotemark" :> A(<< B(TRUE), S("single"), S("jsx-double") >>) @@
      "no-else-after-return" :> B(TRUE) ),
    ( "semicolon" :> A(<< B(TRUE), S("never") >>) @@
      "max-line-length" :> A(<< B(TRUE), N(100) >>) @@
      "indent" :> A(<< B(TRUE), S("spaces") >>) ),
    EmptyObject }

ReactRuleSets ==
  { ( "jsx-no-multiline-js" :> B(TRUE) @@
      "jsx-no-lambda" :> B(TRUE) @@
      "jsx-boolean-value" :> A(<< B(TRUE), S("always") >>) @@
      "jsx-key" :> B(TRUE) @@
      "quotemark" :> A(<< B(TRUE), S("double") >>) ),
    ( "jsx-wrap-multiline" :> B(TRUE) @@
      "semicolon" :> B(FALSE) @@
      "align" :> B(TRUE) ),
    EmptyObject }

\* resolve/lib/core: module name -> enabled for the running Node version,
\* in key order; every Node version enables some public core module
CoreModuleTables ==
  { << << Fs, TRUE >>, << Path, TRUE >>, << StreamWrap, TRUE >>, << Sys, FALSE >>, << FsPromises, TRUE >> >>,
    << << StreamWrap, TRUE >>, << Fs, TRUE >>, << FsPromises, FALSE >> >>,
    << << Path, TRUE >>, << Sys, TRUE >>, << StreamWrap, FALSE >> >> }

\* the project's package.json: absent, or an object with or without the
\* `dependencies` and `devDependencies` objects (keys in file order)
DependencyLists ==
  { << >>, << Lodash >>, << Lodash, LeftPad >>, << SocketIo >>, << LeftPad, SocketIo >> }

DevDependencyLists == { << >>, << LeftPad >>, << SocketIo >>, << Path, Lodash >> }

Manifests ==
  { [ exists |-> FALSE ] }
    \cup { [ exists |-> TRUE, json |-> EmptyObject ] }
    \cup { [ exists |-> TRUE, json |-> [ dependencies |-> d ] ] : d \in DependencyLists }
    \cup { [ exists |-> TRUE, json |-> [ devDependencies |-> d ] ] : d \in DevDependencyLists }
    \cup { [ exists |-> TRUE, json |-> [ dependencies |-> d, devDependencies |-> e ] ] :
             d \in DependencyLists, e \in DevDependencyLists }

Hosts ==
  [ rulesAirbnb : AirbnbRuleSets,
    rulesReact : ReactRuleSets,
    coreModules : CoreModuleTables,
    manifest : Manifests ]

\* the host of the runs that only call customize
DefaultHost ==
  [ rulesAirbnb |-> EmptyObject,
    rulesReact |-> EmptyObject,
    coreModules |-> << << Fs, TRUE >> >>,
    manifest |-> [ exists |-> FALSE ] ]

TypeOK ==
  /\ pc \in { "idle", "overrides", "react", "naming", "jest", "vitest", "mocha", "cypress", "return" }
  /\ cypressRecommended \in CypressRecommendedContents
  /\ options \in OptionsRecords
  /\ Len(calls) <= MaxCalls
  /\ mutations \in 0..MaxMutations

Init ==
  /\ heap = InitialHeap
  /\ cypressRecommended \in CypressRecommendedContents
  /\ pc = "idle"
  /\ options = EmptyObject
  /\ config = << >>
  /\ required = << >>
  /\ calls = << >>
  /\ mutations = 0
  /\ host = DefaultHost
  /\ loadPc = "start"
  /\ bindings = EmptyObject
  /\ fsLog = << >>

\* function entry: parameter, destructuring, `const config = [ ... ]`
Call(o) ==
  /\ pc = "idle"
  /\ Len(calls) < MaxCalls
  /\ options' = o
  /\ UNCHANGED << heap, cypressRecommended, calls, mutations >>
  /\ UNCHANGED loadVars
  /\ config' = BaseConfig'
  /\ required' = << >>
  /\ pc' = "overrides"

\* config.push(overrides/js, overrides/ts, overrides/js-ts)
PushOverrides ==
  /\ pc = "overrides"
  /\ config' = Push(config, OverrideFragments)
  /\ pc' = "react"
  /\ UNCHANGED << heap, cypressRecommended, options, required, calls, mutations >>
  /\ UNCHANGED loadVars

\* if (react) { require(...); require(...); config.push(tsx, jsx-tsx) }
PushReact ==
  /\ pc = "react"
  /\ IF react
     THEN /\ required' = required \o << "eslint-plugin-react", "eslint-plugin-react-hooks" >>
          /\ config' = Push(config, << ReactTsxFragment, ReactJsxTsxFragment >>)
     ELSE UNCHANGED << required, config >>
  /\ pc' = "naming"
  /\ UNCHANGED << heap, cypressRecommended, options, calls, mutations >>
  /\ UNCHANGED loadVars

\* config.push(file-naming-conventions); const ignoreInTestsDir = ...
PushFileNaming ==
  /\ pc = "naming"
  /\ config' = Push(config, << FileNamingFragment >>)
  /\ pc' = "jest"
  /\ UNCHANGED << heap, cypressRecommended, options, required, calls, mutations >>
  /\ UNCHANGED loadVars

\* if (jest) { require('eslint-plugin-jest'); config.push(jest) }
PushJest ==
  /\ pc = "jest"
  /\ IF jest
     THEN /\ required' = Append(required, "eslint-plugin-jest")
          /\ config' = Push(config, << JestFragment >>)
     ELSE UNCHANGED << required, config >>
  /\ pc' = "vitest"
  /\ UNCHANGED << heap, cypressRecommended, options, calls, mutations >>
  /\ UNCHANGED loadVars

\* if (vitest) { require('eslint-plugin-vitest'); config.push(vitest) }
PushVitest ==
  /\ pc = "vitest"
  /\ IF vitest
     THEN /\ required' = Append(required, "eslint-plugin-vitest")
          /\ config' = Push(config, << VitestFragment >>)
     ELSE UNCHANGED << required, config >>
  /\ pc' = "mocha"
  /\ UNCHANGED << heap, cypressRecommended, options, calls, mutations >>
  /\ UNCHANGED loadVars

\* if (mocha || cypress) { require('eslint-plugin-mocha'); config.push(mocha, ignores, mocha/ignore) }
PushMocha ==
  /\ pc = "mocha"
  /\ IF MochaEnabled
     THEN /\ required' = Append(required, "eslint-plugin-mocha")
          /\ config' = Push(config, MochaFragments)
     ELSE UNCHANGED << required, config >>
  /\ pc' = "cypress"
  /\ UNCHANGED << heap, cypressRecommended, options, calls, mutations >>
  /\ UNCHANGED loadVars

\* if (cypress) { require('eslint-plugin-cypress/flat'); config.push(cypress) }
PushCypress ==
  /\ pc = "cypress"
  /\ IF cypress
     THEN /\ required' = Append(required, "eslint-plugin-cypress/flat")
          /\ config' = Push(config, << CypressFragment >>)
     ELSE UNCHANGED << required, config >>
  /\ pc' = "return"
  /\ UNCHANGED << heap, cypressRecommended, options, calls, mutations >>
  /\ UNCHANGED loadVars

\* return config
Return ==
  /\ pc = "return"
  /\ calls' = Append(calls, [ options |-> options, result |-> config, required |-> required ])
  /\ pc' = "idle"
  /\ UNCHANGED << heap, cypressRecommended, options, config, required, mutations >>
  /\ UNCHANGED loadVars

Next ==
  \/ \E o \in CallerOptions : Call(o)
  \/ PushOverrides
  \/ PushReact
  \/ PushFileNaming
  \/ PushJest
  \/ PushVitest
  \/ PushMocha
  \/ PushCypress
  \/ Return

Spec == Init /\ [][Next]_vars

\* ------------------------------------------- the caller mutating a result
\* The structural value of a returned array: every reference replaced by
\* the object it points to.
DeepRules(h, rules) ==
  LET m == Deref(h, rules)
  IN [ k \in DOMAIN m |-> Deref(h, m[k]) ]

DeepFragment(h, f) ==
  LET withRules ==
        IF "rules" \in DOMAIN f
        THEN Spread(f, [ rules |-> DeepRules(h, f.rules) ])
        ELSE f
  IN IF "languageOptions" \in DOMAIN f /\ "globals" \in DOMAIN f.languageOptions
     THEN Spread(withRules,
                 [ languageOptions |->
                     Spread(f.languageOptions, [ globals |-> Deref(h, f.languageOptions.globals) ]) ])
     ELSE withRules

DeepResult(h, result) == [ j \in DOMAIN result |-> DeepFragment(h, result[j]) ]

\* In the runs with a mutating caller the options carry the flags only.
FlagKeys == { "cypress", "jest", "mocha", "react", "vitest" }

CallerFlagOptions ==
  { o \in CallerOptions : DOMAIN o \subseteq FlagKeys }

\* result[j].rules[key] = 'off' on the array returned by call i
MutateRules(i, j) ==
  /\ "rules" \in DOMAIN calls[i].result[j]
  /\ LET rules == calls[i].result[j].rules
         entry == "no-debugger" :> S("off")
     IN IF IsRef(rules)
        THEN /\ heap' = [ heap EXCEPT ![rules.ref] = Spread(@, entry) ]
             /\ UNCHANGED calls
        ELSE /\ calls' = [ calls EXCEPT ![i].result[j].rules = Spread(@, entry) ]
             /\ UNCHANGED heap

\* result[j].rules[k][0] = 'off' on the array returned by call i
MutateRuleValue(i, j, k) ==
  /\ "rules" \in DOMAIN calls[i].result[j]
  /\ LET rules == calls[i].result[j].rules
         m == Deref(heap, rules)
     IN /\ k \in DOMAIN m
        /\ "a" \in DOMAIN Deref(heap, m[k])
        /\ IF IsRef(m[k])
           THEN /\ heap' = [ heap EXCEPT ![m[k].ref].a[1] = S("off") ]
                /\ UNCHANGED calls
           ELSE IF IsRef(rules)
                THEN /\ heap' = [ heap EXCEPT ![rules.ref][k].a[1] = S("off") ]
                     /\ UNCHANGED calls
                ELSE /\ calls' = [ calls EXCEPT ![i].result[j].rules[k].a[1] = S("off") ]
                     /\ UNCHANGED heap

\* result[j].languageOptions.globals.fetch = 'readonly' on the array returned by call i
MutateGlobals(i, j) ==
  /\ "languageOptions" \in DOMAIN calls[i].result[j]
  /\ "globals" \in DOMAIN calls[i].result[j].languageOptions
  /\ LET g == calls[i].result[j].languageOptions.globals
         entry == [ fetch |-> "readonly" ]
     IN IF IsRef(g)
        THEN /\ heap' = [ heap EXCEPT ![g.ref] = Spread(@, entry) ]
             /\ UNCHANGED calls
        ELSE /\ calls' = [ calls EXCEPT ![i].result[j].languageOptions.globals = Spread(@, entry) ]
             /\ UNCHANGED heap

MutableRuleKeys ==
  { "no-unused-vars", "@typescript-eslint/no-unused-vars", "radix", "@stylistic/indent",
    "no-console", "mocha/no-mocha-arrows" }

\* The caller changes one object reachable from the result of call i.
Mutate ==
  /\ pc = "idle"
  /\ mutations < MaxMutations
  /\ mutations' = mutations + 1
  /\ \E i \in 1..Len(calls) : \E j \in 1..Len(calls[i].result) :
       \/ MutateRules(i, j)
       \/ \E k \in MutableRuleKeys : MutateRuleValue(i, j, k)
       \/ MutateGlobals(i, j)
  /\ UNCHANGED << cypressRecommended, pc, options, config, required >>
  /\ UNCHANGED loadVars

NextMut ==
  \/ \E o \in CallerFlagOptions : Call(o)
  \/ PushOverrides
  \/ PushReact
  \/ PushFileNaming
  \/ PushJest
  \/ PushVitest
  \/ PushMocha
  \/ PushCypress
  \/ Return
  \/ Mutate

SpecMut == Init /\ [][NextMut]_vars

\* ================================================================ claims
\* What the properties read off a call: the flags as the caller gave them
\* and the fragments of the returned array.
Flag(o, key) == key \in DOMAIN o /\ o[key] = TRUE
Count(b) == IF b THEN 1 ELSE 0
TestsDirOf(o) == IF "testsDir" \in DOMAIN o THEN o.testsDir ELSE "{spec,test,tests}"

Completed == { calls[i] : i \in 1..Len(calls) }

NameAt(result, j) == IF "name" \in DOMAIN result[j] THEN result[j].name ELSE ""
HasNamed(result, n) == \E j \in 1..Len(result) : NameAt(result, j) = n
CountNamed(result, n) == Cardinality({ j \in 1..Len(result) : NameAt(result, j) = n })

\* the fragment built by the cypress block: the only one that switches
\* 'mocha/no-mocha-arrows' off (its name may come from the plugin)
IsCypressFragment(f) ==
  /\ "rules" \in DOMAIN f
  /\ ~IsRef(f.rules)
  /\ "mocha/no-mocha-arrows" \in DOMAIN f.rules
  /\ f.rules["mocha/no-mocha-arrows"] = S("off")
HasCypress(result) == \E j \in 1..Len(result) : IsCypressFragment(result[j])

HasReact(result) == HasNamed(result, "react/tsx") /\ HasNamed(result, "react/jsx-tsx")
HasMocha(result) == HasNamed(result, "mocha")

MochaOrCypress(o) == Flag(o, "mocha") \/ Flag(o, "cypress")

ExpectedLength(o) ==
  8 + 2 * Count(Flag(o, "react")) + Count(Flag(o, "jest")) + Count(Flag(o, "vitest"))
    + 3 * Count(MochaOrCypress(o)) + Count(Flag(o, "cypress"))

\* index of the file-naming-convention fragment
NamingIndex(o) == 8 + 2 * Count(Flag(o, "react"))

\* ---- C1
\* C1 as stated: in every returned array each optional fragment (react,
\* jest, vitest, mocha, cypress) is present exactly when its own flag is true.
C1_OwnFlagOnly ==
  \A c \in Completed :
    /\ HasReact(c.result) <=> Flag(c.options, "react")
    /\ HasNamed(c.result, "jest") <=> Flag(c.options, "jest")
    /\ HasNamed(c.result, "vitest") <=> Flag(c.options, "vitest")
    /\ HasMocha(c.result) <=> Flag(c.options, "mocha")
    /\ HasCypress(c.result) <=> Flag(c.options, "cypress")

\* C1 amended: the react, jest, vitest and cypress fragments are present
\* exactly when their own flag is true, the mocha fragment exactly when mocha
\* or cypress is true, and the length of the returned array is a function of
\* the five flags alone.
C1_PresenceMatchesFlags ==
  \A c \in Completed :
    /\ HasReact(c.result) <=> Flag(c.options, "react")
    /\ HasNamed(c.result, "react/tsx") <=> Flag(c.options, "react")
    /\ HasNamed(c.result, "jest") <=> Flag(c.options, "jest")
    /\ HasNamed(c.result, "vitest") <=> Flag(c.options, "vitest")
    /\ HasMocha(c.result) <=> MochaOrCypress(c.options)
    /\ HasCypress(c.result) <=> Flag(c.options, "cypress")
    /\ Len(c.result) = ExpectedLength(c.options)

C1_Witness ==
  \E c \in Completed :
    /\ Flag(c.options, "cypress") /\ ~Flag(c.options, "mocha")
    /\ HasMocha(c.result) /\ HasCypress(c.result)
    /\ ~Flag(c.options, "react") /\ ~HasReact(c.result)

\* ---- C2
\* C2: while a call runs, the effective console policy is options.console
\* when it is given, whatever react is; with console not given it is
\* 'ban-log' when react is true and 'allow' when react is false or absent.
C2_ConsolePolicy ==
  pc # "idle" =>
    /\ "console" \in DOMAIN options => consoleUsage = options.console
    /\ ("console" \notin DOMAIN options /\ Flag(options, "react")) => consoleUsage = "ban-log"
    /\ ("console" \notin DOMAIN options /\ ~Flag(options, "react")) => consoleUsage = "allow"

C2_Witness ==
  /\ pc = "return"
  /\ "console" \in DOMAIN options /\ options.console = "allow"
  /\ Flag(options, "react")
  /\ consoleUsage = "allow"

\* ---- C3
\* C3: in the 'overrides/js-ts' fragment 'no-console' is absent for policy
\* 'allow', ['error', { allow: [error, warn, info] }] for 'ban-log', 'error'
\* for 'ban', and 'error' for any other (unvalidated) policy value.
C3_NoConsoleRule ==
  Len(config) >= 7 =>
    LET rules == config[7].rules
    IN /\ config[7].name = "overrides/js-ts"
       /\ consoleUsage = "allow" => "no-console" \notin DOMAIN rules
       /\ consoleUsage = "ban-log" =>
            /\ "no-console" \in DOMAIN rules
            /\ rules["no-console"] = A(<< S("error"), O("{ allow: ['error', 'warn', 'info'] }") >>)
       /\ consoleUsage \notin { "allow", "ban-log" } =>
            /\ "no-console" \in DOMAIN rules
            /\ rules["no-console"] = S("error")

C3_Witness ==
  /\ Len(config) >= 7
  /\ "console" \in DOMAIN options /\ options.console = "warn"
  /\ "no-console" \in DOMAIN config[7].rules
  /\ config[7].rules["no-console"] = S("error")

\* ---- C4
OptionalNames ==
  { "react/tsx", "react/jsx-tsx", "file-naming-conventions", "jest", "vitest",
    "mocha", "mocha/ignore", "cypress", "cypress/recommended" }

\* C4: the first seven fragments of every returned array are, in order, the
\* ignore-pattern fragment, 'recommended/js', 'recommended/ts', the
\* workaround fragment, 'overrides/js', 'overrides/ts', 'overrides/js-ts',
\* and none of them is an optional fragment.
C4_FixedPrefix ==
  \A c \in Completed :
    /\ Len(c.result) >= 7
    /\ DOMAIN c.result[1] = { "ignores" }
    /\ c.result[1].ignores = << "node_modules", "build", "coverage", ".yalc", "vite.config.ts.*" >>
    /\ << NameAt(c.result, 2), NameAt(c.result, 3), NameAt(c.result, 4),
          NameAt(c.result, 5), NameAt(c.result, 6), NameAt(c.result, 7) >>
         = << "recommended/js", "recommended/ts", "workaround-for-files-not-included-in-tsconfig",
              "overrides/js", "overrides/ts", "overrides/js-ts" >>
    /\ \A j \in 1..7 : NameAt(c.result, j) \notin OptionalNames /\ ~IsCypressFragment(c.result[j])

C4_Witness ==
  \E c \in Completed :
    /\ \A k \in FlagKeys : Flag(c.options, k)
    /\ Len(c.result) = 16
    /\ NameAt(c.result, 7) = "overrides/js-ts"

\* ---- C5
\* names of the fragments after the file-naming-convention fragment
TailNames(c) ==
  [ j \in 1..(Len(c.result) - NamingIndex(c.options)) |->
      IF IsCypressFragment(c.result[NamingIndex(c.options) + j])
      THEN "cypress"
      ELSE NameAt(c.result, NamingIndex(c.options) + j) ]

ExpectedTail(o) ==
  (IF Flag(o, "jest") THEN << "jest" >> ELSE << >>)
    \o (IF Flag(o, "vitest") THEN << "vitest" >> ELSE << >>)
    \o (IF MochaOrCypress(o) THEN << "mocha", "", "mocha/ignore" >> ELSE << >>)
    \o (IF Flag(o, "cypress") THEN << "cypress" >> ELSE << >>)

ReactPairInPlace(c) ==
  IF Flag(c.options, "react")
  THEN NameAt(c.result, 8) = "react/tsx" /\ NameAt(c.result, 9) = "react/jsx-tsx"
  ELSE ~HasNamed(c.result, "react/tsx") /\ ~HasNamed(c.result, "react/jsx-tsx")

\* C5 as stated: after the file-naming fragment there is exactly one
\* fragment per enabled test framework, so their number equals the number of
\* enabled test-framework flags.
C5_OnePerFramework ==
  \A c \in Completed :
    Len(c.result) - NamingIndex(c.options)
      = Count(Flag(c.options, "jest")) + Count(Flag(c.options, "vitest"))
          + Count(Flag(c.options, "mocha")) + Count(Flag(c.options, "cypress"))

\* C5 amended: after the seven fixed fragments come the react pair only if
\* react is set, then the file-naming fragment always, then 'jest' if jest,
\* 'vitest' if vitest, the three mocha fragments ('mocha', the __snapshots__
\* ignore fragment, 'mocha/ignore') if mocha or cypress, then the cypress
\* fragment if cypress; the number of fragments after the file-naming
\* fragment is [jest] + [vitest] + 3*[mocha or cypress] + [cypress].
C5_TailOrder ==
  \A c \in Completed :
    /\ ReactPairInPlace(c)
    /\ Len(c.result) >= NamingIndex(c.options)
    /\ NameAt(c.result, NamingIndex(c.options)) = "file-naming-conventions"
    /\ CountNamed(c.result, "file-naming-conventions") = 1
    /\ TailNames(c) = ExpectedTail(c.options)
    /\ Len(c.result) - NamingIndex(c.options)
         = Count(Flag(c.options, "jest")) + Count(Flag(c.options, "vitest"))
             + 3 * Count(MochaOrCypress(c.options)) + Count(Flag(c.options, "cypress"))

C5_Witness ==
  \E c \in Completed :
    /\ Flag(c.options, "react") /\ Flag(c.options, "jest") /\ Flag(c.options, "mocha")
    /\ ~Flag(c.options, "cypress") /\ ~Flag(c.options, "vitest")
    /\ Len(c.result) = 14
    /\ NameAt(c.result, 10) = "file-naming-conventions"
    /\ NameAt(c.result, 14) = "mocha/ignore"

\* ---- C6
TestGlobs(dir, ext) ==
  << dir \o "/**/*." \o ext, "**/__tests__/**/*." \o ext, "**/*.{spec,test}." \o ext >>

IsTestGlobs(files, dir) ==
  files \in { TestGlobs(dir, "?(c|m)[jt]s?(x)"), TestGlobs(dir, "?(c|m)[jt]s") }

\* C6 as stated: every fragment appended for a test framework (every
\* fragment after the file-naming fragment) has a files list made of the
\* testsDir glob, the __tests__ glob and the *.{spec,test}.* glob.
C6_AllTestScoped ==
  \A c \in Completed :
    \A j \in (NamingIndex(c.options) + 1)..Len(c.result) :
      /\ "files" \in DOMAIN c.result[j]
      /\ IsTestGlobs(c.result[j].files, TestsDirOf(c.options))

\* C6 amended: the 'jest', 'vitest' and 'mocha' fragments have exactly the
\* three globs (testsDir glob, __tests__ glob, *.{spec,test}.* glob) as
\* files; the mocha block also appends an ignores-only fragment for
\* '__snapshots__' with no files list and 'mocha/ignore' whose files are the
\* two testsDir-rooted helper globs; the cypress fragment has the three
\* globs unless the plugin's recommended config has its own files, which
\* then replace them.
C6_TestFragmentScopes ==
  \A c \in Completed :
    \A j \in (NamingIndex(c.options) + 1)..Len(c.result) :
      LET f == c.result[j]
          dir == TestsDirOf(c.options)
      IN /\ NameAt(c.result, j) \in { "jest", "vitest" } =>
              f.files = TestGlobs(dir, "?(c|m)[jt]s?(x)")
         /\ NameAt(c.result, j) = "mocha" => f.files = TestGlobs(dir, "?(c|m)[jt]s")
         /\ NameAt(c.result, j) = "mocha/ignore" =>
              f.files = << dir \o "/**/_*", dir \o "/**/*.skip.*" >>
         /\ IsCypressFragment(f) =>
              f.files = IF "files" \in DOMAIN cypressRecommended
                        THEN cypressRecommended.files
                        ELSE TestGlobs(dir, "?(c|m)[jt]s")
         /\ "files" \notin DOMAIN f =>
              /\ DOMAIN f = { "ignores" }
              /\ f.ignores = << "__snapshots__" >>
              /\ NameAt(c.result, j - 1) = "mocha"
         /\ \/ NameAt(c.result, j) \in { "jest", "vitest", "mocha", "mocha/ignore" }
            \/ IsCypressFragment(f)
            \/ "files" \notin DOMAIN f

C6_Witness ==
  \E c \in Completed :
    /\ "testsDir" \in DOMAIN c.options
    /\ Flag(c.options, "jest") /\ Flag(c.options, "mocha") /\ Flag(c.options, "cypress")
    /\ \E j \in 1..Len(c.result) :
         NameAt(c.result, j) = "jest" /\ c.result[j].files[1] = "src/**/*.?(c|m)[jt]s?(x)"
    /\ \E j \in 1..Len(c.result) :
         NameAt(c.result, j) = "mocha/ignore" /\ c.result[j].files[1] = "src/**/_*"

\* ---- C7
\* C7: two completed calls with structurally identical options returned
\* structurally identical arrays (and required the same modules): nothing
\* left behind by an earlier call shows in a later result.
C7_SameOptionsSameResult ==
  \A i, j \in 1..Len(calls) :
    calls[i].options = calls[j].options =>
      /\ DeepResult(heap, calls[i].result) = DeepResult(heap, calls[j].result)
      /\ calls[i].result = calls[j].result
      /\ calls[i].required = calls[j].required

C7_Witness ==
  /\ Len(calls) >= 2
  /\ calls[1].options = calls[2].options
  /\ Flag(calls[1].options, "cypress") /\ Flag(calls[1].options, "react")
  /\ "testsDir" \in DOMAIN calls[1].options
  /\ Len(calls[2].result) = 14

\* ---- C8
\* C8 as stated: a step that changes what is reachable from the result of
\* one call (the caller mutating a rules map, a rule value array or a
\* globals map) leaves the structural value of every other call's result
\* unchanged.
C8_ResultsIndependent ==
  [][ \A i, j \in 1..Len(calls) :
        ( /\ i # j
          /\ Len(calls') = Len(calls)
          /\ DeepResult(heap', calls'[i].result) # DeepResult(heap, calls[i].result) )
        => DeepResult(heap', calls'[j].result) = DeepResult(heap, calls[j].result) ]_vars

\* ---- C9
IsPrefix(p, q) == Len(p) <= Len(q) /\ SubSeq(q, 1, Len(p)) = p

\* C9: while a call runs, every step leaves the fragments already in the
\* array where they are and unchanged; the array only grows at its end.
C9_AppendOnly ==
  [][ pc # "idle" => /\ IsPrefix(config, config')
                     /\ DeepResult(heap', config) = DeepResult(heap, config) ]_vars

C9_Witness ==
  /\ pc = "return"
  /\ \A k \in FlagKeys : Flag(options, k)
  /\ Len(config) = 16
  /\ IsCypressFragment(config[16])
  /\ NameAt(config, 2) = "recommended/js"

\* ---- C10
PluginOf ==
  [ react |-> { "eslint-plugin-react", "eslint-plugin-react-hooks" },
    jest |-> { "eslint-plugin-jest" },
    vitest |-> { "eslint-plugin-vitest" },
    mocha |-> { "eslint-plugin-mocha" },
    cypress |-> { "eslint-plugin-cypress/flat" } ]

Loaded(seq) == { seq[n] : n \in 1..Len(seq) }

\* plugin names a fragment refers to
Referenced(result) ==
  UNION { { result[j].plugins[k] : k \in DOMAIN result[j].plugins } :
            j \in { n \in 1..Len(result) : "plugins" \in DOMAIN result[n] } }

\* C10 as stated: a domain's plugin module is loaded only if that domain's
\* own flag is true.
C10_LoadedOnlyIfOwnFlag ==
  \A k \in FlagKeys :
    (PluginOf[k] \cap Loaded(required) # {}) => Flag(options, k)

\* C10 amended: the react, jest, vitest and cypress plugin modules are
\* loaded or referenced only if their own flag is true; the mocha plugin
\* module is loaded or referenced only if mocha or cypress is true (cypress
\* enables the mocha block); a completed call has loaded exactly the
\* plugins so enabled.
C10_LoadedOnlyIfEnabled ==
  LET enabled(o, k) == IF k = "mocha" THEN MochaOrCypress(o) ELSE Flag(o, k)
  IN /\ \A k \in FlagKeys :
          (PluginOf[k] \cap (Loaded(required) \cup Referenced(config)) # {}) => enabled(options, k)
     /\ \A c \in Completed : \A k \in FlagKeys :
          /\ enabled(c.options, k) <=> PluginOf[k] \subseteq Loaded(c.required)
          /\ ~enabled(c.options, k) => PluginOf[k] \cap (Loaded(c.required) \cup Referenced(c.result)) = {}

C10_Witness ==
  \E c \in Completed :
    /\ Flag(c.options, "cypress") /\ ~Flag(c.options, "mocha") /\ ~Flag(c.options, "jest")
    /\ c.required = << "eslint-plugin-mocha", "eslint-plugin-cypress/flat" >>

\* ============================================ the TSLint configuration modules
\* an options object of a TSLint rule, with its fields
Obj(r) == [obj |-> r]

\* the value of a `let` that was never assigned, and of `undefined && x`
Undefined == [undefined |-> TRUE]

\* Boolean(x) for the values an import-group entry can take
Boolean(x) == x # Undefined

\* Array.prototype.join(sep) on strings kept as character sequences
RECURSIVE Join(_, _)
Join(strings, sep) ==
  IF strings = << >> THEN << >>
  ELSE IF Len(strings) = 1 THEN strings[1]
  ELSE strings[1] \o sep \o Join(Tail(strings), sep)

\* String.prototype.replace(/\./g, replacement)
RECURSIVE ReplaceDots(_, _)
ReplaceDots(string, replacement) ==
  IF string = << >> THEN << >>
  ELSE (IF Head(string) = "." THEN replacement ELSE << Head(string) >>)
         \o ReplaceDots(Tail(string), replacement)

\* String.prototype.startsWith(prefix)
StartsWith(string, prefix) ==
  /\ Len(string) >= Len(prefix)
  /\ SubSeq(string, 1, Len(prefix)) = prefix

\* Object.entries(coreModules).reduce(...): the enabled modules whose name
\* does not start with '_', in key order
RECURSIVE Modules(_)
Modules(entries) ==
  IF entries = << >> THEN << >>
  ELSE (IF Head(entries)[2] /\ ~StartsWith(Head(entries)[1], << "_" >>)
        THEN << Head(entries)[1] >> ELSE << >>)
         \o Modules(Tail(entries))

CoreModulesRegexUnanchored(modules) == << "(" >> \o Join(modules, << "|" >>) \o << ")" >>

\* '^(' + modules.join('|') + ')$'
CoreModulesRegex(modules) == << "^", "(" >> \o Join(modules, << "|" >>) \o << ")", "$" >>

\* Object.keys(packageJson[field] || {})
KeysOrEmpty(packageJson, field) ==
  IF field \in DOMAIN packageJson THEN packageJson[field] ELSE << >>

\* [...Object.keys(dependencies || {}), ...Object.keys(devDependencies || {})]
Dependencies(packageJson) ==
  KeysOrEmpty(packageJson, "dependencies") \o KeysOrEmpty(packageJson, "devDependencies")

\* the replacement '\\\\.' of the source is the three characters \ \ .
DotReplacement == << "\\", "\\", "." >>

\* '^(' + dependencies.join('|').replace(/\./g, '\\\\.') + ')(/|$)'
DependenciesRegex(dependencies) ==
  << "^", "(" >> \o ReplaceDots(Join(dependencies, << "|" >>), DotReplacement)
    \o << ")", "(", "/", "|", "$", ")" >>

\* the value of the binding dependenciesRegex, undefined until assigned
DependenciesRegexOf(b) ==
  IF "dependenciesRegex" \in DOMAIN b THEN b.dependenciesRegex ELSE Undefined

\* the array literal of import groups, before .filter(Boolean)
\* the list with 'current directory' ahead of 'parent directories'
ImportGroupEntriesCurrentFirst(coreModulesRegex, dependenciesRegex) ==
  << [ name |-> "aliased paths (which begin with tilde [~] in our convention)",
       match |-> << "^", "~" >>, order |-> 30 ],
     [ name |-> "current directory",
       match |-> << "^", "\\", "." >>, order |-> 60 ],
     [ name |-> "parent directories",
       match |-> << "^", "\\", ".", "\\", "." >>, order |-> 50 ],
     [ name |-> "built-in node modules",
       match |-> coreModulesRegex, order |-> 10 ],
     IF dependenciesRegex = Undefined THEN Undefined
     ELSE [ name |-> "dependencies", match |-> dependenciesRegex, order |-> 20 ],
     [ name |-> "absolute imports",
       match |-> << "\\", ".", "*" >>, order |-> 40 ] >>

ImportGroupEntries(coreModulesRegex, dependenciesRegex) ==
  << [ name |-> "aliased paths (which begin with tilde [~] in our convention)",
       match |-> << "^", "~" >>, order |-> 30 ],
     [ name |-> "parent directories",
       match |-> << "^", "\\", ".", "\\", "." >>, order |-> 50 ],
     [ name |-> "current directory",
       match |-> << "^", "\\", "." >>, order |-> 60 ],
     [ name |-> "built-in node modules",
       match |-> coreModulesRegex, order |-> 10 ],
     IF dependenciesRegex = Undefined THEN Undefined
     ELSE [ name |-> "dependencies", match |-> dependenciesRegex, order |-> 20 ],
     [ name |-> "absolute imports",
       match |-> << "\\", ".", "*" >>, order |-> 40 ] >>

FilterKeepsAll(entries) == entries

\* .filter(Boolean)
FilterBoolean(entries) == SelectSeq(entries, Boolean)

ImportGroups(coreModulesRegex, dependenciesRegex) ==
  FilterBoolean(ImportGroupEntries(coreModulesRegex, dependenciesRegex))

TrailingCommaOptions ==
  Obj([ esSpecCompliant |-> B(TRUE),
        multiline |-> Obj([ objects |-> S("always"), arrays |-> S("always"),
                            imports |-> S("always"), exports |-> S("always"),
                            typeLiterals |-> S("always") ]),
        singleline |-> S("never") ])

WhitespaceValue ==
  A(<< B(TRUE), S("check-branch"), S("check-decl"), S("check-operator"),
       S("check-preblock"), S("check-separator"), S("check-module") >>)

TerMaxLenValue ==
  A(<< B(TRUE), N(120), N(2),
       Obj([ ignoreUrls |-> B(TRUE), ignoreComments |-> B(TRUE),
             ignoreRegExpLiterals |-> B(TRUE), ignoreStrings |-> B(TRUE),
             ignoreTemplateLiterals |-> B(TRUE) ]) >>)

\* the object literal merged last by the module without import ordering
OverridesV1 ==
  ( "no-increment-decrement" :> B(FALSE) @@
    "no-unused-variable" :> B(TRUE) @@
    "align" :> B(FALSE) @@
    "whitespace" :> WhitespaceValue @@
    "trailing-comma" :> A(<< B(TRUE), TrailingCommaOptions >>) @@
    "max-line-length" :> B(FALSE) @@
    "ter-max-len" :> TerMaxLenValue @@
    "variable-name" :> B(FALSE) @@
    "no-this-assignment" :> A(<< B(TRUE), Obj("allow-destructuring" :> B(TRUE)) >>) @@
    "import-name" :> B(FALSE) @@
    "object-shorthand-properties-first" :> B(FALSE) @@
    "jsx-no-multiline-js" :> B(FALSE) @@
    "no-console" :> B(TRUE) @@
    "no-unexpected-multiline" :> B(TRUE) @@
    "ter-arrow-body-style" :> A(<< B(TRUE), S("as needed") >>) @@
    "no-for-in-array" :> B(TRUE) )

\* the object literal merged last by the import-order-aware module
OverridesV2(importGroups) ==
  ( "prefer-array-literal" :> A(<< B(TRUE), Obj("allow-size-argument" :> B(TRUE)) >>) @@
    "align" :> B(FALSE) @@
    "increment-decrement" :> B(FALSE) @@
    "whitespace" :> WhitespaceValue @@
    "trailing-comma" :> A(<< B(TRUE), TrailingCommaOptions >>) @@
    "max-line-length" :> B(FALSE) @@
    "ter-max-len" :> TerMaxLenValue @@
    "function-name" :>
      A(<< B(TRUE),
           Obj( "function-regex" :> O("/^[a-zA-Z$][a-zA-Z\\d]+$/") @@
                "method-regex" :> O("/^[a-z$][a-zA-Z\\d]+$/") @@
                "private-method-regex" :> O("/^[a-z$][a-zA-Z\\d]+$/") @@
                "protected-method-regex" :> O("/^[a-z$][a-zA-Z\\d]+$/") @@
                "static-method-regex" :> O("/^[a-z$][a-zA-Z\\d]+$/") ) >>) @@
    "variable-name" :> B(FALSE) @@
    "no-this-assignment" :> A(<< B(TRUE), Obj("allow-destructuring" :> B(TRUE)) >>) @@
    "import-name" :> B(FALSE) @@
    "object-shorthand-properties-first" :> B(FALSE) @@
    "ter-prefer-arrow-callback" :> A(<< B(TRUE), Obj([ allowNamedFunctions |-> B(TRUE) ]) >>) @@
    "ter-arrow-parens" :> B(FALSE) @@
    "no-boolean-literal-compare" :> B(FALSE) @@
    "semicolon" :> A(<< B(TRUE), S("always"), S("ignore-bound-class-methods") >>) @@
    "prefer-template" :> A(<< B(TRUE), S("allow-single-concat") >>) @@
    "jsx-no-multiline-js" :> B(FALSE) @@
    "jsx-no-lambda" :> B(FALSE) @@
    "jsx-boolean-value" :> B(FALSE) @@
    "jsx-wrap-multiline" :> B(FALSE) @@
    "no-console" :> B(TRUE) @@
    "no-unexpected-multiline" :> B(TRUE) @@
    "ter-arrow-body-style" :> A(<< B(TRUE), S("as needed") >>) @@
    "no-for-in-array" :> B(TRUE) @@
    "no-return-await" :> B(TRUE) @@
    "no-unused" :> A(<< B(TRUE), S("ignore-parameters") >>) @@
    "ordered-imports" :>
      A(<< B(TRUE),
           Obj( "named-imports-order" :> S("lowercase-last") @@
                "grouped-imports" :> B(TRUE) @@
                "groups" :> A(importGroups) ) >>) @@
    "react-hooks-nesting" :> B(TRUE) )

\* a field-wise combination of two rule values: the option objects at the
\* same position of two arrays are merged field by field
DeepValue(old, new) ==
  IF DOMAIN old = {"a"} /\ DOMAIN new = {"a"}
  THEN A([ i \in 1..Len(new.a) |->
            IF i <= Len(old.a) /\ DOMAIN old.a[i] = {"obj"} /\ DOMAIN new.a[i] = {"obj"}
            THEN Obj(Spread(old.a[i].obj, new.a[i].obj))
            ELSE new.a[i] ])
  ELSE new

DeepAssign(a, b) ==
  [k \in DOMAIN a \cup DOMAIN b |->
    IF k \in DOMAIN a /\ k \in DOMAIN b THEN DeepValue(a[k], b[k])
    ELSE IF k \in DOMAIN b THEN b[k] ELSE a[k]]

MergeRulesOverridesFirst(rulesAirbnb, rulesReact, overrides) ==
  Spread(Spread(Spread(EmptyObject, overrides), rulesAirbnb), rulesReact)

MergeRulesFieldwise(rulesAirbnb, rulesReact, overrides) ==
  DeepAssign(DeepAssign(DeepAssign(EmptyObject, rulesAirbnb), rulesReact), overrides)

\* Object.assign({}, rulesAirbnb, rulesReact, { ...overrides })
MergeRules(rulesAirbnb, rulesReact, overrides) ==
  Spread(Spread(Spread(EmptyObject, rulesAirbnb), rulesReact), overrides)

\* delete object[key] for each of the keys
Without(object, keys) == [k \in DOMAIN object \ keys |-> object[k]]

\* the deletes without the last one
TypescriptOnlyRulesSix ==
  { "prefer-array-literal", "no-function-constructor-with-string-args",
    "no-increment-decrement", "no-unused-variable", "no-boolean-literal-compare",
    "function-name" }

\* the rules deleted from the copy that becomes jsRules
TypescriptOnlyRules ==
  { "prefer-array-literal", "no-function-constructor-with-string-args",
    "no-increment-decrement", "no-unused-variable", "no-boolean-literal-compare",
    "function-name", "import-name" }

\* Object.assign({}, rules) followed by the seven deletes
JsRulesV1(rules) == Without(Spread(EmptyObject, rules), TypescriptOnlyRules)

\* the document exported by the module without import ordering
ConfigV1(rules, jsRules) ==
  [ extends |-> << "tslint-config-airbnb", "tslint-react" >>,
    rules |-> rules,
    jsRules |-> jsRules ]

ConfigV2WithMap(rules) ==
  [ extends |-> << "tslint-config-airbnb", "tslint-react", "tslint-react-hooks" >>,
    rules |-> rules,
    jsRules |-> rules ]

\* the document exported by the import-order-aware module
ConfigV2(rules) ==
  [ extends |-> << "tslint-config-airbnb", "tslint-react", "tslint-react-hooks" >>,
    rules |-> rules,
    jsRules |-> B(TRUE) ]

\* ------------------------------------------------ evaluation of the modules
Bind(b, new) == Spread(b, new)

InitLoad ==
  /\ heap = InitialHeap
  /\ cypressRecommended \in { c \in CypressRecommendedContents : "files" \in DOMAIN c }
  /\ pc = "idle"
  /\ options = EmptyObject
  /\ config = << >>
  /\ required = << >>
  /\ calls = << >>
  /\ mutations = 0
  /\ host \in Hosts
  /\ loadPc = "start"
  /\ bindings = EmptyObject
  /\ fsLog = << >>

PrettierConfigDoubleQuotes ==
  [ printWidth |-> N(100), trailingComma |-> S("es5") ]

\* const config: prettier.Options = { printWidth, singleQuote, trailingComma }
PrettierConfig ==
  [ printWidth |-> N(100), singleQuote |-> B(TRUE), trailingComma |-> S("es5") ]

\* the prettier module is evaluated: export default config
LoadPrettier ==
  /\ "prettier" \notin DOMAIN bindings
  /\ bindings' = Bind(bindings, [ prettier |-> PrettierConfig ])
  /\ UNCHANGED << host, loadPc, fsLog >>
  /\ UNCHANGED customizeVars

\* the module without import ordering is evaluated (it has no branches)
LoadTslintV1 ==
  /\ "tslintV1" \notin DOMAIN bindings
  /\ LET rules == MergeRules(host.rulesAirbnb, host.rulesReact, OverridesV1)
         jsRules == JsRulesV1(rules)
     IN bindings' = Bind(bindings, [ tslintV1 |-> ConfigV1(rules, jsRules) ])
  /\ UNCHANGED << host, loadPc, fsLog >>
  /\ UNCHANGED customizeVars

\* const modules = ...; const coreModulesRegex = ...
EvalCoreModulesRegex ==
  /\ loadPc = "start"
  /\ LET modules == Modules(host.coreModules)
     IN bindings' = Bind(bindings, [ modules |-> modules,
                                     coreModulesRegex |-> CoreModulesRegex(modules) ])
  /\ loadPc' = "exists"
  /\ UNCHANGED << host, fsLog >>
  /\ UNCHANGED customizeVars

\* let dependenciesRegex; if (fs.existsSync(projectPackageJson))
ExistsSync ==
  /\ loadPc = "exists"
  /\ fsLog' = Append(fsLog, "existsSync")
  /\ loadPc' = IF host.manifest.exists THEN "read" ELSE "groups"
  /\ UNCHANGED << host, bindings >>
  /\ UNCHANGED customizeVars

\* the body of the if: require(projectPackageJson), dependencies,
\* if (dependencies.length) dependenciesRegex = ...
ReadManifest ==
  /\ loadPc = "read"
  /\ fsLog' = Append(fsLog, "require")
  /\ LET packageJson == host.manifest.json
         dependencies == Dependencies(packageJson)
     IN bindings' =
          IF Len(dependencies) # 0
          THEN Bind(bindings, [ dependencies |-> dependencies,
                                dependenciesRegex |-> DependenciesRegex(dependencies) ])
          ELSE Bind(bindings, [ dependencies |-> dependencies ])
  /\ loadPc' = "groups"
  /\ UNCHANGED host
  /\ UNCHANGED customizeVars

\* const importGroups = [ ... ].filter(Boolean)
EvalImportGroups ==
  /\ loadPc = "groups"
  /\ bindings' = Bind(bindings, [ importGroups |->
                   ImportGroups(bindings.coreModulesRegex, DependenciesRegexOf(bindings)) ])
  /\ loadPc' = "rules"
  /\ UNCHANGED << host, fsLog >>
  /\ UNCHANGED customizeVars

\* const rules = Object.assign({}, rulesAirbnb, rulesReact, { ... })
EvalRules ==
  /\ loadPc = "rules"
  /\ bindings' = Bind(bindings, [ rules |->
                   MergeRules(host.rulesAirbnb, host.rulesReact,
                              OverridesV2(bindings.importGroups)) ])
  /\ loadPc' = "export"
  /\ UNCHANGED << host, fsLog >>
  /\ UNCHANGED customizeVars

\* const config = { extends, rules, jsRules: true }; export = config
ExportConfig ==
  /\ loadPc = "export"
  /\ bindings' = Bind(bindings, [ tslintV2 |-> ConfigV2(bindings.rules) ])
  /\ loadPc' = "done"
  /\ UNCHANGED << host, fsLog >>
  /\ UNCHANGED customizeVars

UseConfigRereads ==
  /\ loadPc = "done"
  /\ loadPc' = "used"
  /\ fsLog' = Append(fsLog, "require")
  /\ UNCHANGED << host, bindings >>
  /\ UNCHANGED customizeVars

\* the linter takes the exported document (extends, rules, jsRules): plain
\* data without accessors, so reading it runs no code of the module
UseConfig ==
  /\ loadPc = "done"
  /\ loadPc' = "used"
  /\ UNCHANGED << host, bindings, fsLog >>
  /\ UNCHANGED customizeVars

NextLoad ==
  \/ LoadPrettier
  \/ LoadTslintV1
  \/ EvalCoreModulesRegex
  \/ ExistsSync
  \/ ReadManifest
  \/ EvalImportGroups
  \/ EvalRules
  \/ ExportConfig
  \/ UseConfig

SpecLoad == InitLoad /\ [][NextLoad]_vars

\* --------------------------------------------- claims on the TSLint modules
\* the three sources of a merge, in merge order
SourcesV1 == << host.rulesAirbnb, host.rulesReact, OverridesV1 >>
SourcesV2 == << host.rulesAirbnb, host.rulesReact, OverridesV2(bindings.importGroups) >>

LoadedV1 == "tslintV1" \in DOMAIN bindings
LoadedV2 == "tslintV2" \in DOMAIN bindings

\* every key of the override table carries the override table's value
OverridesWin(rules, overrides) ==
  \A k \in DOMAIN overrides : k \in DOMAIN rules /\ rules[k] = overrides[k]

\* C11: in both TSLint modules, every rule key the authored override table
\* defines has the override table's value in the merged rules, whatever the
\* airbnb and react rule sets define for it
C11_OverridesWin ==
  /\ LoadedV1 => OverridesWin(bindings.tslintV1.rules, OverridesV1)
  /\ LoadedV2 => OverridesWin(bindings.tslintV2.rules, OverridesV2(bindings.importGroups))

\* both modules are loaded on a host whose airbnb and react rule sets give
\* 'semicolon' values that differ from the override table's
C11_Witness ==
  /\ LoadedV1 /\ LoadedV2
  /\ "semicolon" \in DOMAIN host.rulesAirbnb
  /\ "semicolon" \in DOMAIN host.rulesReact
  /\ host.rulesAirbnb["semicolon"] # bindings.tslintV2.rules["semicolon"]
  /\ host.rulesReact["semicolon"] # bindings.tslintV2.rules["semicolon"]
  /\ "align" \in DOMAIN host.rulesReact
  /\ host.rulesReact["align"] # bindings.tslintV1.rules["align"]

\* the index of the last source that defines key k (0 when none does)
LastDefining(sources, k) ==
  IF k \in DOMAIN sources[3] THEN 3
  ELSE IF k \in DOMAIN sources[2] THEN 2
  ELSE IF k \in DOMAIN sources[1] THEN 1
  ELSE 0

LastWriteWins(rules, sources) ==
  /\ DOMAIN rules = DOMAIN sources[1] \cup DOMAIN sources[2] \cup DOMAIN sources[3]
  /\ \A k \in DOMAIN rules : rules[k] = sources[LastDefining(sources, k)][k]

\* C12: the merged rules are the last-write-wins merge of airbnb, react and
\* the override table: the key set is the union of the three key sets and
\* each value is the whole value of the last source defining the key
C12_LastWriteWins ==
  /\ LoadedV1 => LastWriteWins(bindings.tslintV1.rules, SourcesV1)
  /\ LoadedV2 => LastWriteWins(bindings.tslintV2.rules, SourcesV2)

\* a merge in which an earlier source gives a rule an options object with a
\* field the override table's options object lacks, a key defined by
\* react over airbnb only, and a key defined by airbnb only
C12_Witness ==
  /\ LoadedV1 /\ LoadedV2
  /\ "no-this-assignment" \in DOMAIN host.rulesAirbnb
  /\ "allowedNames" \in DOMAIN host.rulesAirbnb["no-this-assignment"].a[2].obj
  /\ "quotemark" \in DOMAIN host.rulesAirbnb /\ "quotemark" \in DOMAIN host.rulesReact
  /\ bindings.tslintV2.rules["quotemark"] = host.rulesReact["quotemark"]
  /\ bindings.tslintV1.rules["no-else-after-return"] = host.rulesAirbnb["no-else-after-return"]

\* ------------------------------------- how the patterns match import paths
\* The 'match' strings are regular expression sources; the import-ordering
\* rule tests an import path against new RegExp(match).  The matcher below
\* covers the syntax these sources use: alternation, groups, ^ and $,
\* backslash escapes, the dot, the star and literal characters.

\* for every character of a source: is it escaped by a backslash, and how
\* many groups are open before it
RECURSIVE ScanSource(_, _, _, _, _)
ScanSource(p, i, escaped, depth, acc) ==
  IF i > Len(p) THEN acc
  ELSE LET c == p[i]
           opens == ~escaped /\ c = "("
           closes == ~escaped /\ c = ")"
       IN ScanSource(p, i + 1, ~escaped /\ c = "\\",
                     IF opens THEN depth + 1 ELSE IF closes THEN depth - 1 ELSE depth,
                     Append(acc, [ esc |-> escaped, depth |-> depth ]))

Scan(p) == ScanSource(p, 1, FALSE, 0, << >>)

Least(set) == CHOOSE m \in set : \A n \in set : m <= n

RECURSIVE AltEnds(_, _, _, _, _, _, _)
RECURSIVE SeqEnds(_, _, _, _, _, _, _)
RECURSIVE StarEnds(_, _, _, _, _, _, _)

\* the positions of s at which a match of the atom p[i..k], begun at one of
\* the positions `starts`, can end
AtomEnds(p, meta, i, k, d, s, starts) ==
  IF p[i] = "(" THEN AltEnds(p, meta, i + 1, k - 1, d + 1, s, starts)
  ELSE IF p[i] = "^" THEN starts \cap {0}
  ELSE IF p[i] = "$" THEN starts \cap {Len(s)}
  ELSE IF p[i] = "." THEN { q + 1 : q \in { q \in starts : q < Len(s) } }
  ELSE IF p[i] = "\\" THEN { q + 1 : q \in { q \in starts : q < Len(s) /\ s[q + 1] = p[k] } }
  ELSE { q + 1 : q \in { q \in starts : q < Len(s) /\ s[q + 1] = p[i] } }

\* zero or more repetitions of the atom
StarEnds(p, meta, i, k, d, s, reached) ==
  LET more == AtomEnds(p, meta, i, k, d, s, reached) \cup reached
  IN IF more = reached THEN reached ELSE StarEnds(p, meta, i, k, d, s, more)

\* a sequence of atoms p[i..j] inside d open groups
SeqEnds(p, meta, i, j, d, s, starts) ==
  IF i > j \/ starts = {} THEN starts
  ELSE LET k == IF p[i] = "("
                THEN Least({ m \in (i + 1)..j : p[m] = ")" /\ ~meta[m].esc /\ meta[m].depth = d + 1 })
                ELSE IF p[i] = "\\" THEN i + 1 ELSE i
           star == k + 1 <= j /\ p[k + 1] = "*"
           ends == IF star THEN StarEnds(p, meta, i, k, d, s, starts)
                   ELSE AtomEnds(p, meta, i, k, d, s, starts)
       IN SeqEnds(p, meta, IF star THEN k + 2 ELSE k + 1, j, d, s, ends)

\* an alternation p[i..j] inside d open groups: the union over its branches
AltEnds(p, meta, i, j, d, s, starts) ==
  LET bars == { m \in i..j : p[m] = "|" /\ ~meta[m].esc /\ meta[m].depth = d }
      firsts == {i} \cup { m + 1 : m \in bars }
      last(b) == IF \E m \in bars : m >= b THEN Least({ m \in bars : m >= b }) - 1 ELSE j
  IN UNION { SeqEnds(p, meta, b, last(b), d, s, starts) : b \in firsts }

\* new RegExp(source).test(string): a match may begin at any position
Matches(source, string) ==
  AltEnds(source, Scan(source), 1, Len(source), 0, string, 0..Len(string)) # {}

\* self-checks of the matcher on the fixed patterns of the import groups
MatcherSane ==
  /\ Matches(<< "^", "~" >>, << "~", "/", "a" >>)
  /\ ~Matches(<< "^", "~" >>, << "a", "~" >>)
  /\ Matches(<< "^", "\\", ".", "\\", "." >>, << ".", ".", "/", "a" >>)
  /\ ~Matches(<< "^", "\\", ".", "\\", "." >>, << ".", "/", "a" >>)
  /\ ~Matches(<< "^", "\\", "." >>, << "a", "." >>)
  /\ Matches(<< "\\", ".", "*" >>, << "a" >>)
  /\ Matches(<< "\\", ".", "*" >>, << >>)
  /\ Matches(<< "^", "(", "a", "|", "b", "c", ")", "$" >>, << "b", "c" >>)
  /\ ~Matches(<< "^", "(", "a", "|", "b", "c", ")", "$" >>, << "a", "c" >>)
  /\ Matches(<< "^", "(", "a", "|", "b", ")", "(", "/", "|", "$", ")" >>, << "b", "/", "x" >>)
  /\ ~Matches(<< "^", "(", "a", "|", "b", ")", "(", "/", "|", "$", ")" >>, << "b", "x" >>)
  /\ Matches(<< "a", "\\", "\\", ".", "b" >>, << "a", "\\", "x", "b" >>)
  /\ ~Matches(<< "a", "\\", "\\", ".", "b" >>, << "a", ".", "b" >>)
  /\ Matches(<< "a", "\\", ".", "b" >>, << "x", "a", ".", "b" >>)

\* the set of elements of a sequence
Range(seq) == { seq[i] : i \in 1..Len(seq) }

\* the names the manifest of the host declares (none when there is no manifest)
DeclaredNames ==
  IF host.manifest.exists
  THEN Range(KeysOrEmpty(host.manifest.json, "dependencies"))
         \cup Range(KeysOrEmpty(host.manifest.json, "devDependencies"))
  ELSE {}

HasDot(name) == "." \in Range(name)

\* import paths probed against the dependency pattern: around every name
\* of the sample universe, the name itself, a path below it, the name
\* extended, prefixed and cut short, and the name with its dots replaced
ProbesAround(name) ==
  { name,
    name \o << "/", "f", "p" >>,
    name \o << "/" >>,
    name \o << "2" >>,
    << "x" >> \o name,
    << "x", "/" >> \o name,
    SubSeq(name, 1, Len(name) - 1),
    ReplaceDots(name, << "x" >>),
    ReplaceDots(name, << "/" >>),
    ReplaceDots(name, << "\\", "x" >>),
    ReplaceDots(name, << "\\", "." >>) }

ImportPaths ==
  UNION { ProbesAround(name) : name \in { Lodash, LeftPad, SocketIo, Fs } }
    \cup { << >>, << ".", "/", "a" >>, << "~", "/", "a" >> }

\* p names a declared package or a path inside one
IsDeclaredImport(p) ==
  \E d \in DeclaredNames : p = d \/ StartsWith(p, d \o << "/" >>)

DependenciesRegexBound == "dependenciesRegex" \in DOMAIN bindings

\* C13: the dependency pattern matches an import path exactly when the path
\* equals a declared dependency name or begins with one followed by '/'
C13_MatchesExactlyDeclared ==
  DependenciesRegexBound =>
    \A p \in ImportPaths : Matches(bindings.dependenciesRegex, p) <=> IsDeclaredImport(p)

\* the example of the specification: with lodash and left-pad declared the
\* pattern matches 'lodash/fp' and 'left-pad' and does not match 'lodash2'
DependencyExampleHolds ==
  (DependenciesRegexBound /\ DeclaredNames = { Lodash, LeftPad }) =>
    /\ Matches(bindings.dependenciesRegex, Lodash \o << "/", "f", "p" >>)
    /\ Matches(bindings.dependenciesRegex, LeftPad)
    /\ ~Matches(bindings.dependenciesRegex, Lodash \o << "2" >>)

\* without a dot in any declared name the pattern matches exactly the
\* declared imports
DotlessNamesMatchExactly ==
  (DependenciesRegexBound /\ \A d \in DeclaredNames : ~HasDot(d)) =>
    \A p \in ImportPaths : Matches(bindings.dependenciesRegex, p) <=> IsDeclaredImport(p)

\* C14: for every declared name that contains a dot the dependency pattern
\* matches the name itself and the name followed by '/...', and does not
\* match the name with the dot replaced by another character
C14_DotsEscaped ==
  DependenciesRegexBound =>
    \A d \in { n \in DeclaredNames : HasDot(n) } :
      /\ Matches(bindings.dependenciesRegex, d)
      /\ Matches(bindings.dependenciesRegex, d \o << "/", "f", "p" >>)
      /\ ~Matches(bindings.dependenciesRegex, ReplaceDots(d, << "x" >>))

\* what the pattern built for a dotted name does match: the name with each
\* dot replaced by a backslash and one more character
DottedNameNeedsBackslash ==
  DependenciesRegexBound =>
    \A d \in { n \in DeclaredNames : HasDot(n) } :
      /\ ~Matches(bindings.dependenciesRegex, d)
      /\ Matches(bindings.dependenciesRegex, ReplaceDots(d, << "\\", "x" >>))

\* the steps of the import-order-aware module
StepV2 ==
  \/ EvalCoreModulesRegex
  \/ ExistsSync
  \/ ReadManifest
  \/ EvalImportGroups
  \/ EvalRules
  \/ ExportConfig

ImportGroupsBound == "importGroups" \in DOMAIN bindings

IsDependenciesGroup(g) == g # Undefined /\ g.name = "dependencies"

HasDependenciesGroup(groups) == \E i \in 1..Len(groups) : IsDependenciesGroup(groups[i])

\* the names of the groups that do not depend on the manifest, in list order
FixedGroupNames ==
  << "aliased paths (which begin with tilde [~] in our convention)",
     "parent directories",
     "current directory",
     "built-in node modules",
     "absolute imports" >>

\* C15: the import-group list contains the 'dependencies' group exactly when
\* the manifest exists and declares a dependency or devDependency; without
\* one the evaluation goes on to the export and the list holds the five
\* other groups; the list never holds an empty or falsy entry
C15_DependenciesGroupIffDeclared ==
  /\ ImportGroupsBound =>
       LET groups == bindings.importGroups
       IN /\ HasDependenciesGroup(groups) <=> (host.manifest.exists /\ DeclaredNames # {})
          /\ \A i \in 1..Len(groups) : groups[i] # Undefined /\ groups[i].match # << >>
          /\ ~HasDependenciesGroup(groups) =>
               /\ Len(groups) = 5
               /\ \A i \in 1..5 : groups[i].name = FixedGroupNames[i]
          /\ HasDependenciesGroup(groups) =>
               /\ Len(groups) = 6
               /\ IsDependenciesGroup(groups[5])
  /\ (DeclaredNames = {} /\ loadPc \notin { "done", "used" }) => ENABLED StepV2

\* the module was evaluated to its export on a host whose manifest exists
\* and declares nothing, and on a host without manifest
C15_Witness ==
  /\ loadPc = "done"
  /\ host.manifest.exists
  /\ "dependencies" \in DOMAIN host.manifest.json
  /\ DeclaredNames = {}
  /\ Len(bindings.importGroups) = 5

C15_WitnessAbsent ==
  /\ loadPc = "done"
  /\ ~host.manifest.exists
  /\ Len(bindings.importGroups) = 5

CoreModulesRegexBound == "coreModulesRegex" \in DOMAIN bindings

\* the built-in modules the host enables, private ones ('_...') left out
PublicCoreModules ==
  { e[1] : e \in { e \in Range(host.coreModules) : e[2] /\ e[1][1] # "_" } }

CoreProbes ==
  UNION { ProbesAround(name) : name \in { Fs, Path, FsPromises, StreamWrap, Sys } }
    \cup { << >>, << "_" >>, << "f", "s", "|", "p", "a", "t", "h" >> }

\* C16: the built-in module pattern matches a string exactly when the
\* string is the name of an enabled built-in module that does not start
\* with '_'; a string that contains, prefixes or extends such a name is
\* not matched
C16_CoreRegexAnchored ==
  CoreModulesRegexBound =>
    \A p \in CoreProbes : Matches(bindings.coreModulesRegex, p) <=> p \in PublicCoreModules

\* the pattern was built on a host with an enabled private module, a
\* disabled module and an enabled module whose name extends another's
C16_Witness ==
  /\ CoreModulesRegexBound
  /\ << StreamWrap, TRUE >> \in Range(host.coreModules)
  /\ << Sys, FALSE >> \in Range(host.coreModules)
  /\ { Fs, FsPromises } \subseteq PublicCoreModules
  /\ Matches(bindings.coreModulesRegex, FsPromises)

\* the documents exported so far
ExportedDocuments ==
  (IF LoadedV1 THEN { bindings.tslintV1 } ELSE {})
    \cup (IF LoadedV2 THEN { bindings.tslintV2 } ELSE {})

IsBooleanValue(v) == v \in { B(TRUE), B(FALSE) }

\* a rule map whose every entry is an entry of `rules`
IsParallelRuleMap(jsRules, rules) ==
  /\ ~IsBooleanValue(jsRules)
  /\ DOMAIN jsRules \subseteq DOMAIN rules
  /\ \A k \in DOMAIN jsRules : jsRules[k] = rules[k]

HasExtendsAndRules(doc) ==
  /\ DOMAIN doc = { "extends", "rules", "jsRules" }
  /\ Len(doc.extends) >= 2
  /\ \A i \in 1..Len(doc.extends) : doc.extends[i] \in
       { "tslint-config-airbnb", "tslint-react", "tslint-react-hooks" }
  /\ DOMAIN doc.rules # {}

\* C17 as stated: every exported TSLint document has an 'extends' list, a
\* 'rules' map and a 'jsRules' value that is a rule map parallel to 'rules'
C17_JsRulesIsMap ==
  \A doc \in ExportedDocuments :
    /\ HasExtendsAndRules(doc)
    /\ IsParallelRuleMap(doc.jsRules, doc.rules)

\* C17 amended: every exported TSLint document has an 'extends' list and
\* the merged 'rules' map; 'jsRules' is a rule map parallel to 'rules' in
\* the module without import ordering and the boolean true in the
\* import-order-aware module
C17_LegacyDocumentShape ==
  /\ LoadedV1 =>
       /\ HasExtendsAndRules(bindings.tslintV1)
       /\ LastWriteWins(bindings.tslintV1.rules, SourcesV1)
       /\ IsParallelRuleMap(bindings.tslintV1.jsRules, bindings.tslintV1.rules)
  /\ LoadedV2 =>
       /\ HasExtendsAndRules(bindings.tslintV2)
       /\ LastWriteWins(bindings.tslintV2.rules, SourcesV2)
       /\ bindings.tslintV2.jsRules = B(TRUE)

\* both documents are exported; the first one's jsRules lacks a rule that
\* its rules have
C17_Witness ==
  /\ LoadedV1 /\ LoadedV2
  /\ "no-unused-variable" \in DOMAIN bindings.tslintV1.rules
  /\ "no-unused-variable" \notin DOMAIN bindings.tslintV1.jsRules
  /\ "no-console" \in DOMAIN bindings.tslintV1.jsRules
  /\ IsBooleanValue(bindings.tslintV2.jsRules)

\* ------------------------------------------ claims on the prettier options
LoadedPrettier == "prettier" \in DOMAIN bindings

\* every value of the record is a number, a boolean or a string
IsFlat(record) == \A k \in DOMAIN record : DOMAIN record[k] \in { {"n"}, {"b"}, {"s"} }

\* C18 as stated: the exported formatter options carry a print width, a
\* quote style, a trailing-comma policy and an arrow-parens policy
C18_CarriesArrowParens ==
  LoadedPrettier =>
    /\ IsFlat(bindings.prettier)
    /\ { "printWidth", "singleQuote", "trailingComma", "arrowParens" }
         \subseteq DOMAIN bindings.prettier

\* C18 amended: the exported formatter options are a flat record of exactly
\* a print width (100), a quote style (single quotes) and a trailing-comma
\* policy ('es5'); no arrow-parens policy is set
C18_FormatterOptions ==
  LoadedPrettier =>
    /\ IsFlat(bindings.prettier)
    /\ DOMAIN bindings.prettier = { "printWidth", "singleQuote", "trailingComma" }
    /\ bindings.prettier.printWidth = N(100)
    /\ bindings.prettier.singleQuote = B(TRUE)
    /\ bindings.prettier.trailingComma = S("es5")

\* the prettier module was evaluated and exports its options
C18_Witness ==
  /\ LoadedPrettier
  /\ "printWidth" \in DOMAIN bindings.prettier
  /\ "arrowParens" \notin DOMAIN bindings.prettier

\* ================================ the earlier customize (src/prettier.ts:56)
\* It reads indent, jest, react, vitest and console; its fragments carry no
\* name, and it copies the imported globals instead of referring to them.
Unnamed(fragment) == Without(fragment, { "name" })

\* the fields the earlier customize reads
OptionKeysV1 == { "console", "indent", "jest", "react", "vitest" }

RecommendedJsFragmentV1 ==
  [ Unnamed(RecommendedJsFragment) EXCEPT
      !.languageOptions = [ globals |-> Spread(EmptyObject, heap["globals.node"]) ] ]

WorkaroundFragmentV1 ==
  [ files |-> << "*.config.ts", "*.setup.ts" >>,
    languageOptions |-> [ parserOptions |-> [ project |-> S("null") ] ] ]

BaseConfigV1 ==
  << IgnoresFragment, RecommendedJsFragmentV1, Unnamed(RecommendedTsFragment),
     WorkaroundFragmentV1 >>

JestFragmentV1 ==
  [ Unnamed(JestFragment) EXCEPT
      !.files = << "spec/**", "**/*.test.ts", "**/*.spec.ts", "**/__tests__/**" >> ]

VitestFragmentV1 ==
  [ files |-> << "spec/**", "**/*.{spec,test}.?(c|m)[jt]s?(x)", "**/__tests__/**" >>,
    languageOptions |->
      [ globals |-> Spread(EmptyObject, heap["vitestPlugin.environments.env.globals"]) ],
    plugins |-> [ vitest |-> "eslint-plugin-vitest" ],
    rules |->
      Spread(VitestRecommendedRules,
        ( "vitest/valid-title" :> A(<< S("error"), O("{ ignoreTypeOfDescribeName: true }") >>) @@
          "vitest/no-focused-tests" :> S("error") @@
          "no-console" :> S("error") )) ]

\* override fragments that never set 'no-console'
OverrideFragmentsV1NoConsole ==
  [ i \in 1..Len(OverrideFragments) |->
      [ Unnamed(OverrideFragments[i]) EXCEPT
          !.rules = Without(OverrideFragments[i].rules, { "no-console" }) ] ]

OverrideFragmentsV1 ==
  [ i \in 1..Len(OverrideFragments) |-> Unnamed(OverrideFragments[i]) ]

ReactJsxTsxFragmentV1 ==
  [ Unnamed(ReactJsxTsxFragment) EXCEPT
      !.languageOptions.globals = Spread(EmptyObject, heap["globals.browser"]) ]

\* function customize(options = {}) { const config = [ four fragments ]
CallV1(o) ==
  /\ pc = "idle"
  /\ Len(calls) < MaxCalls
  /\ options' = o
  /\ config' = BaseConfigV1
  /\ required' = << >>
  /\ pc' = "v1.jest"
  /\ UNCHANGED << heap, cypressRecommended, calls, mutations >>
  /\ UNCHANGED loadVars

\* if (jest) { require('eslint-plugin-jest'); config.push({...}) }
PushJestV1 ==
  /\ pc = "v1.jest"
  /\ IF jest
     THEN /\ required' = Append(required, "eslint-plugin-jest")
          /\ config' = Push(config, << JestFragmentV1 >>)
     ELSE UNCHANGED << required, config >>
  /\ pc' = "v1.vitest"
  /\ UNCHANGED << heap, cypressRecommended, options, calls, mutations >>
  /\ UNCHANGED loadVars

\* if (vitest) { require('eslint-plugin-vitest'); config.push({...}) }
PushVitestV1 ==
  /\ pc = "v1.vitest"
  /\ IF vitest
     THEN /\ required' = Append(required, "eslint-plugin-vitest")
          /\ config' = Push(config, << VitestFragmentV1 >>)
     ELSE UNCHANGED << required, config >>
  /\ pc' = "v1.overrides"
  /\ UNCHANGED << heap, cypressRecommended, options, calls, mutations >>
  /\ UNCHANGED loadVars

\* config.push(js overrides, ts overrides, js + ts overrides)
PushOverridesV1 ==
  /\ pc = "v1.overrides"
  /\ config' = Push(config, OverrideFragmentsV1)
  /\ pc' = "v1.react"
  /\ UNCHANGED << heap, cypressRecommended, options, required, calls, mutations >>
  /\ UNCHANGED loadVars

\* if (react) { require(...); require(...); config.push(tsx, jsx + tsx) }
PushReactV1 ==
  /\ pc = "v1.react"
  /\ IF react
     THEN /\ required' = required \o << "eslint-plugin-react", "eslint-plugin-react-hooks" >>
          /\ config' = Push(config, << Unnamed(ReactTsxFragment), ReactJsxTsxFragmentV1 >>)
     ELSE UNCHANGED << required, config >>
  /\ pc' = "v1.naming"
  /\ UNCHANGED << heap, cypressRecommended, options, calls, mutations >>
  /\ UNCHANGED loadVars

\* config.push(file naming conventions); return config
ReturnV1 ==
  /\ pc = "v1.naming"
  /\ calls' = Append(calls, [ options |-> options,
                              result |-> Push(config, << Unnamed(FileNamingFragment) >>),
                              required |-> required,
                              variant |-> "v1" ])
  /\ config' = Push(config, << Unnamed(FileNamingFragment) >>)
  /\ pc' = "idle"
  /\ UNCHANGED << heap, cypressRecommended, options, required, mutations >>
  /\ UNCHANGED loadVars

\* ---------------------------------- calls with fields customize never reads
\* fields added to an options record: a misspelt testsDir and a field of
\* no variant; a testsDir and a cypress flag, which the earlier customize
\* does not know
ExtraFields ==
  { [ testDir |-> "e2e", typescript |-> TRUE ],
    [ testsDir |-> "e2e", cypress |-> TRUE ] }

\* the first call takes any options record, a later call the options of an
\* earlier call extended with extra fields
CallerOptionsExtra ==
  IF calls = << >>
  THEN { o \in OptionsRecords : "console" \in DOMAIN o => o.console = "ban" }
  ELSE { Spread(calls[i].options, f) : i \in 1..Len(calls), f \in ExtraFields }

IsV1(call) == "variant" \in DOMAIN call

\* one module instance is called repeatedly: the current customize or the
\* earlier one
NextExtra ==
  \/ /\ IF calls = << >> THEN TRUE ELSE ~IsV1(calls[1])
     /\ \E o \in CallerOptionsExtra : Call(o)
  \/ PushOverrides
  \/ PushReact
  \/ PushFileNaming
  \/ PushJest
  \/ PushVitest
  \/ PushMocha
  \/ PushCypress
  \/ Return
  \/ /\ IF calls = << >> THEN TRUE ELSE IsV1(calls[1])
     /\ \E o \in CallerOptionsExtra : CallV1(o)
  \/ PushJestV1
  \/ PushVitestV1
  \/ PushOverridesV1
  \/ PushReactV1
  \/ ReturnV1

InitExtra ==
  /\ Init
  /\ "files" \in DOMAIN cypressRecommended

SpecExtra == InitExtra /\ [][NextExtra]_vars

\* the fields a call's customize variant reads
RecognizedKeys(call) == IF IsV1(call) THEN OptionKeysV1 ELSE OptionKeys

Restrict(o, keys) == [ k \in DOMAIN o \cap keys |-> o[k] ]

SameRecognized(a, b) ==
  /\ IsV1(a) = IsV1(b)
  /\ Restrict(a.options, RecognizedKeys(a)) = Restrict(b.options, RecognizedKeys(b))

\* C19: fields of the options record that the customize variant does not
\* read are ignored: two calls whose options agree on the fields the
\* variant reads return structurally equal arrays and load the same
\* plugins, whatever other fields the records hold; every call returns
C19_UnrecognizedIgnored ==
  /\ \A i, j \in 1..Len(calls) :
       SameRecognized(calls[i], calls[j]) =>
         /\ calls[i].result = calls[j].result
         /\ calls[i].required = calls[j].required
  /\ pc # "threw"

\* the current customize returned for options with jest enabled and for
\* the same options with a misspelt testsDir and another unknown field
C19_Witness ==
  /\ Len(calls) >= 2
  /\ ~IsV1(calls[1]) /\ ~IsV1(calls[2])
  /\ Flag(calls[1].options, "jest")
  /\ DOMAIN calls[1].options \subseteq OptionKeys
  /\ "testDir" \in DOMAIN calls[2].options
  /\ "testDir" \notin DOMAIN calls[1].options
  /\ SameRecognized(calls[1], calls[2])

\* the earlier customize returned for options with jest enabled and for
\* the same options with a testsDir and a cypress flag
C19_WitnessV1 ==
  /\ Len(calls) >= 2
  /\ IsV1(calls[1]) /\ IsV1(calls[2])
  /\ Flag(calls[1].options, "jest")
  /\ DOMAIN calls[1].options \subseteq OptionKeysV1
  /\ "cypress" \in DOMAIN calls[2].options
  /\ SameRecognized(calls[1], calls[2])

\* ------------------------------------ calls with values of the wrong type
\* An options object as a JavaScript caller can pass it: every value tagged
\* with its type.  S, N, B, A as above; Null; Chars(c) a string given by its
\* characters (what iterating the string yields).
Null == [null |-> TRUE]
Chars(c) == [chars |-> c]

RawOptions ==
  [ disableTypeChecked : { A(<< "dangerfile.ts" >>), Chars(<< "a", ".", "t", "s" >>), Null, N(5) },
    console : { S("warn"), N(1), Null },
    indent : { S("wide"), B(TRUE), Null },
    testsDir : { N(15), Null, A(<< "spec", "e2e" >>) },
    jest : { S("yes"), N(0), Null },
    cypress : { S(""), N(1) },
    react : { B(TRUE), S("no") } ]

\* ToBoolean(v), as applied by `if (flag)` and `flag || flag`
Truthy(v) == v \notin { B(FALSE), Null, N(0), S(""), Undefined }

Digit(d) == << "0", "1", "2", "3", "4", "5", "6", "7", "8", "9" >>[d + 1]

RECURSIVE NatToString(_)
NatToString(n) == IF n < 10 THEN Digit(n) ELSE NatToString(n \div 10) \o Digit(n % 10)

RECURSIVE JoinStrings(_, _)
JoinStrings(strings, sep) ==
  IF strings = << >> THEN ""
  ELSE IF Len(strings) = 1 THEN strings[1]
  ELSE strings[1] \o sep \o JoinStrings(Tail(strings), sep)

\* the string a template literal `${v}` inserts
ToStringJs(v) ==
  IF DOMAIN v = {"s"} THEN v.s
  ELSE IF DOMAIN v = {"n"} THEN NatToString(v.n)
  ELSE IF DOMAIN v = {"b"} THEN (IF v.b THEN "true" ELSE "false")
  ELSE IF DOMAIN v = {"a"} THEN JoinStrings(v.a, ",")
  ELSE "null"

\* can the array spread [...v] iterate v
IsIterable(v) == DOMAIN v \in { {"a"}, {"chars"} }

\* the elements [...v] yields
Elements(v) == IF DOMAIN v = {"a"} THEN v.a ELSE v.chars

\* a destructuring default applies to an absent or undefined property,
\* `??` also to null
IsGiven(m, key) ==
  /\ key \in DOMAIN m
  /\ m[key] # Undefined
  /\ key = "console" => m[key] # Null

\* the array literal of the base fragments spreads disableTypeChecked: a
\* value that is not iterable makes the spread throw a TypeError
Throws(m) ==
  /\ IsGiven(m, "disableTypeChecked")
  /\ ~IsIterable(m.disableTypeChecked)

\* the options record with the values as customize uses them: flags by
\* their truthiness, testsDir as the text the template literals insert, a
\* console value that is not a string as a text equal to no policy name
ReadAs(m, key) ==
  IF key \in FlagKeys THEN Truthy(m[key])
  ELSE IF key = "testsDir" THEN ToStringJs(m[key])
  ELSE IF key = "console"
       THEN (IF DOMAIN m[key] = {"s"} THEN m[key].s ELSE "(not a string)")
  ELSE IF key = "disableTypeChecked" THEN Elements(m[key])
  ELSE m[key]

Read(m) == [ key \in { k \in DOMAIN m : IsGiven(m, k) } |-> ReadAs(m, key) ]

\* customize(m) where the base array literal is built
CallRaw(m) ==
  /\ calls = << >>
  /\ ~Throws(m)
  /\ Call(Read(m))

\* customize(m) where building the base array literal throws
CallThrows(m) ==
  /\ pc = "idle"
  /\ calls = << >>
  /\ Throws(m)
  /\ pc' = "threw"
  /\ options' = m
  /\ config' = << >>
  /\ required' = << >>
  /\ UNCHANGED << heap, cypressRecommended, calls, mutations >>
  /\ UNCHANGED loadVars

NextMalformed ==
  \/ \E m \in RawOptions : CallRaw(m)
  \/ \E m \in RawOptions : CallThrows(m)
  \/ PushOverrides
  \/ PushReact
  \/ PushFileNaming
  \/ PushJest
  \/ PushVitest
  \/ PushMocha
  \/ PushCypress
  \/ Return

SpecMalformed == InitExtra /\ [][NextMalformed]_vars

\* C20: customize raises no error: for every options record, whatever the
\* type of the values its fields hold, the call returns a fragment sequence
C20_NeverThrows == pc # "threw"

\* values of the wrong type in console, indent, testsDir and the flags do
\* pass: the call returns an array that begins with the four base fragments
\* and the test directory globs carry the text of the value
WrongTypedScalarsPass ==
  \A i \in 1..Len(calls) :
    /\ Len(calls[i].result) >= 8
    /\ calls[i].result[1] = IgnoresFragment
    /\ TestsDirOf(calls[i].options) \in { "15", "null", "spec,e2e" }

\* ======================================= further claims on customize
\* the fragment of a returned array that carries the given name
Named(result, n) == result[CHOOSE j \in 1..Len(result) : NameAt(result, j) = n]

DisableTypeCheckedOf(o) ==
  IF "disableTypeChecked" \in DOMAIN o THEN o.disableTypeChecked ELSE << >>

\* C21: the files list of the workaround fragment is '*.config.ts',
\* '*.setup.ts' followed by the entries of options.disableTypeChecked in
\* their given order; with the option absent it is the two defaults
C21_WorkaroundFiles ==
  \A c \in Completed :
    /\ NameAt(c.result, 4) = "workaround-for-files-not-included-in-tsconfig"
    /\ c.result[4].files =
         << "*.config.ts", "*.setup.ts" >> \o DisableTypeCheckedOf(c.options)

\* a call with two disableTypeChecked entries returned
C21_Witness ==
  \E c \in Completed :
    /\ "disableTypeChecked" \in DOMAIN c.options
    /\ Len(c.options.disableTypeChecked) = 2
    /\ Len(c.result[4].files) = 4
    /\ c.result[4].files[3] = "dangerfile.ts"

IndentOf(o) == IF "indent" \in DOMAIN o THEN o.indent ELSE N(2)

\* C22: the indent option (2 when absent) is the value of every
\* indentation rule: '@stylistic/indent' in 'overrides/js-ts' and, with
\* react, '@stylistic/jsx-indent' and '@stylistic/jsx-indent-props'
C22_SingleIndent ==
  \A c \in Completed :
    /\ Named(c.result, "overrides/js-ts").rules["@stylistic/indent"].a[2] = IndentOf(c.options)
    /\ Flag(c.options, "react") =>
         /\ Named(c.result, "react/jsx-tsx").rules["@stylistic/jsx-indent"]
              = A(<< S("error"), IndentOf(c.options) >>)
         /\ Named(c.result, "react/jsx-tsx").rules["@stylistic/jsx-indent-props"]
              = A(<< S("error"), IndentOf(c.options) >>)
    /\ \A j \in 1..Len(c.result) :
         ("rules" \in DOMAIN c.result[j] /\ ~IsRef(c.result[j].rules)) =>
           \A k \in DOMAIN c.result[j].rules \cap
                     { "@stylistic/indent", "@stylistic/jsx-indent", "@stylistic/jsx-indent-props" } :
             c.result[j].rules[k].a[2] = IndentOf(c.options)

\* a call with react and indent 'tab' returned
C22_Witness ==
  \E c \in Completed :
    /\ Flag(c.options, "react")
    /\ "indent" \in DOMAIN c.options
    /\ c.options.indent = S("tab")
    /\ HasNamed(c.result, "react/jsx-tsx")

\* C24: the length of the returned array is 8 + 2[react] + [jest] + [vitest]
\* + 3[mocha or cypress] + [cypress]; with no options it is 8
C24_Length ==
  \A c \in Completed :
    /\ Len(c.result) =
         8 + 2 * Count(Flag(c.options, "react")) + Count(Flag(c.options, "jest"))
           + Count(Flag(c.options, "vitest"))
           + 3 * Count(Flag(c.options, "mocha") \/ Flag(c.options, "cypress"))
           + Count(Flag(c.options, "cypress"))
    /\ c.options = EmptyObject => Len(c.result) = 8

\* a call with react and cypress but without mocha returned 14 fragments
C24_Witness ==
  /\ \E c \in Completed :
       /\ Flag(c.options, "react") /\ Flag(c.options, "cypress")
       /\ ~Flag(c.options, "mocha") /\ ~Flag(c.options, "jest") /\ ~Flag(c.options, "vitest")
       /\ Len(c.result) = 14

\* ---------------------------------------------- reads of the manifest
AfterManifestBlock == loadPc \in { "groups", "rules", "export", "done", "used" }

\* C23: building the import-order-aware configuration reads the manifest at
\* most once and only after the existence check found it; once the block
\* is passed, and when the built configuration is used, the log of file
\* system operations stays what it was: no further read
C23_ManifestReadOnce ==
  /\ fsLog \in { << >>, << "existsSync" >>, << "existsSync", "require" >> }
  /\ "require" \in Range(fsLog) => host.manifest.exists
  /\ AfterManifestBlock =>
       fsLog = IF host.manifest.exists
               THEN << "existsSync", "require" >>
               ELSE << "existsSync" >>

\* the configuration was built from an existing manifest and then used
C23_Witness ==
  /\ loadPc = "used"
  /\ host.manifest.exists
  /\ fsLog = << "existsSync", "require" >>

\* ------------------------------- applying the returned fragments in order
\* The linter applies to a file every fragment whose `files` match it (a
\* fragment without `files` applies to every file), in array order; for a
\* rule key the value of the last such fragment stands.

\* sample files of a project: first directory, whether a '__tests__'
\* directory is on the path, the part of the name before the extension
\* ('spec', 'test', 'cy', 'skip' or none), a leading '_', the extension
SampleFiles ==
  { [ path |-> "spec/api.spec.ts", dir |-> "spec", inTests |-> FALSE, kind |-> "spec", under |-> FALSE, ext |-> "ts" ],
    [ path |-> "spec/helpers.ts", dir |-> "spec", inTests |-> FALSE, kind |-> "", under |-> FALSE, ext |-> "ts" ],
    [ path |-> "spec/_setup.js", dir |-> "spec", inTests |-> FALSE, kind |-> "", under |-> TRUE, ext |-> "js" ],
    [ path |-> "src/app.ts", dir |-> "src", inTests |-> FALSE, kind |-> "", under |-> FALSE, ext |-> "ts" ],
    [ path |-> "src/util.test.js", dir |-> "src", inTests |-> FALSE, kind |-> "test", under |-> FALSE, ext |-> "js" ],
    [ path |-> "src/__tests__/util.ts", dir |-> "src", inTests |-> TRUE, kind |-> "", under |-> FALSE, ext |-> "ts" ],
    [ path |-> "src/Button.test.tsx", dir |-> "src", inTests |-> FALSE, kind |-> "test", under |-> FALSE, ext |-> "tsx" ],
    [ path |-> "src/App.tsx", dir |-> "src", inTests |-> FALSE, kind |-> "", under |-> FALSE, ext |-> "tsx" ],
    [ path |-> "e2e/login.spec.ts", dir |-> "e2e", inTests |-> FALSE, kind |-> "spec", under |-> FALSE, ext |-> "ts" ],
    [ path |-> "cypress/e2e/login.cy.js", dir |-> "cypress", inTests |-> FALSE, kind |-> "cy", under |-> FALSE, ext |-> "js" ] }

\* the testsDir texts of the modelled calls
TestsDirs == { "{spec,test,tests}", "src", "e2e" }

\* `${testsDir}/**/...`: the file lies under the directory (brace expansion
\* for the default)
InDir(f, dir) ==
  IF dir = "{spec,test,tests}" THEN f.dir \in { "spec", "test", "tests" } ELSE f.dir = dir

\* minimatch of the patterns that occur in `files`, on the sample files
GlobMatches(pattern, f) ==
  IF pattern = "**/*.?(m|c)[jt]s?(x)" THEN f.ext \in { "js", "jsx", "ts", "tsx" }
  ELSE IF pattern = "**/*.?(m|c)ts?(x)" THEN f.ext \in { "ts", "tsx" }
  ELSE IF pattern = "**/*.?(m|c)js?(x)" THEN f.ext \in { "js", "jsx" }
  ELSE IF pattern = "**/*.?(m|c)tsx" THEN f.ext = "tsx"
  ELSE IF pattern = "**/*.?(m|c)[jt]sx" THEN f.ext \in { "jsx", "tsx" }
  ELSE IF pattern = "**/__tests__/**/*.?(c|m)[jt]s?(x)"
       THEN f.inTests /\ f.ext \in { "js", "jsx", "ts", "tsx" }
  ELSE IF pattern = "**/__tests__/**/*.?(c|m)[jt]s"
       THEN f.inTests /\ f.ext \in { "js", "ts" }
  ELSE IF pattern = "**/*.{spec,test}.?(c|m)[jt]s?(x)"
       THEN f.kind \in { "spec", "test" } /\ f.ext \in { "js", "jsx", "ts", "tsx" }
  ELSE IF pattern = "**/*.{spec,test}.?(c|m)[jt]s"
       THEN f.kind \in { "spec", "test" } /\ f.ext \in { "js", "ts" }
  ELSE IF pattern = "spec/**" THEN f.dir = "spec"
  ELSE IF pattern = "**/*.test.ts" THEN f.kind = "test" /\ f.ext = "ts"
  ELSE IF pattern = "**/*.spec.ts" THEN f.kind = "spec" /\ f.ext = "ts"
  ELSE IF pattern = "**/__tests__/**" THEN f.inTests
  ELSE IF pattern = "cypress/**/*.cy.js"
       THEN f.dir = "cypress" /\ f.kind = "cy" /\ f.ext = "js"
  ELSE IF \E dir \in TestsDirs : pattern = dir \o "/**/*.?(c|m)[jt]s?(x)"
       THEN /\ \E dir \in TestsDirs : pattern = dir \o "/**/*.?(c|m)[jt]s?(x)" /\ InDir(f, dir)
            /\ f.ext \in { "js", "jsx", "ts", "tsx" }
  ELSE IF \E dir \in TestsDirs : pattern = dir \o "/**/*.?(c|m)[jt]s"
       THEN /\ \E dir \in TestsDirs : pattern = dir \o "/**/*.?(c|m)[jt]s" /\ InDir(f, dir)
            /\ f.ext \in { "js", "ts" }
  ELSE IF \E dir \in TestsDirs : pattern = dir \o "/**/_*"
       THEN /\ \E dir \in TestsDirs : pattern = dir \o "/**/_*" /\ InDir(f, dir)
            /\ f.under
  ELSE IF \E dir \in TestsDirs : pattern = dir \o "/**/*.skip.*"
       THEN /\ \E dir \in TestsDirs : pattern = dir \o "/**/*.skip.*" /\ InDir(f, dir)
            /\ f.kind = "skip"
  ELSE f.path = pattern

MatchesAny(files, f) == \E i \in 1..Len(files) : GlobMatches(files[i], f)

\* does the fragment contribute rules to the file
Applies(fragment, f) ==
  /\ "rules" \in DOMAIN fragment
  /\ "files" \in DOMAIN fragment => MatchesAny(fragment.files, f)

Unset == [unset |-> TRUE]

\* the value of rule `key` for file f after applying the fragments in order
Effective(h, result, f, key) ==
  LET setters == { j \in 1..Len(result) :
                     /\ Applies(result[j], f)
                     /\ key \in DOMAIN Deref(h, result[j].rules) }
  IN IF setters = {} THEN Unset
     ELSE Deref(h, result[CHOOSE j \in setters : \A k \in setters : k <= j].rules)[key]

IndexOfNamed(result, n) == CHOOSE j \in 1..Len(result) : NameAt(result, j) = n
IndexOfCypress(result) == CHOOSE j \in 1..Len(result) : IsCypressFragment(result[j])

IsSnapshotsIgnore(f) == DOMAIN f = { "ignores" } /\ f.ignores = << "__snapshots__" >>

\* with cypress: 'mocha', the '__snapshots__' ignore fragment and
\* 'mocha/ignore' are present once each and precede the cypress fragment
MochaOnceBeforeCypress ==
  \A c \in Completed :
    Flag(c.options, "cypress") =>
      /\ CountNamed(c.result, "mocha") = 1
      /\ CountNamed(c.result, "mocha/ignore") = 1
      /\ Cardinality({ j \in 1..Len(c.result) : IsSnapshotsIgnore(c.result[j]) }) = 1
      /\ Cardinality({ j \in 1..Len(c.result) : IsCypressFragment(c.result[j]) }) = 1
      /\ IndexOfNamed(c.result, "mocha") < IndexOfCypress(c.result)
      /\ IndexOfNamed(c.result, "mocha/ignore") < IndexOfCypress(c.result)
      /\ \A j \in 1..Len(c.result) :
           IsSnapshotsIgnore(c.result[j]) => j < IndexOfCypress(c.result)

\* C25: whenever cypress is true the three mocha fragments are present once
\* each, with or without mocha, and precede the cypress fragment, so that
\* for every file the mocha fragment applies to, applying the fragments in
\* order leaves 'mocha/no-mocha-arrows' at the cypress fragment's 'off'
C25_CypressOverridesMocha ==
  /\ MochaOnceBeforeCypress
  /\ \A c \in Completed :
       Flag(c.options, "cypress") =>
         \A f \in SampleFiles :
           MatchesAny(Named(c.result, "mocha").files, f) =>
             Effective(heap, c.result, f, "mocha/no-mocha-arrows") = S("off")

\* the same when the plugin's recommended config has no `files` of its own
OverridesMochaUnlessPluginFiles ==
  \A c \in Completed :
    (Flag(c.options, "cypress") /\ "files" \notin DOMAIN cypressRecommended) =>
      \A f \in SampleFiles :
        MatchesAny(Named(c.result, "mocha").files, f) =>
          Effective(heap, c.result, f, "mocha/no-mocha-arrows") = S("off")

\* the console policy of a call: options.console, else 'ban-log' with react
\* and 'allow' without
ConsoleOf(o) ==
  IF "console" \in DOMAIN o THEN o.console
  ELSE IF Flag(o, "react") THEN "ban-log" ELSE "allow"

IsCurrent(c) == "variant" \notin DOMAIN c

\* C26: when jest or vitest is enabled, applying the fragments returned by
\* customize of src/eslint.ts in order leaves 'no-console' at 'error' for
\* every file the test globs match, whatever the console policy
C26_TestsBanConsole ==
  \A c \in Completed :
    (IsCurrent(c) /\ (Flag(c.options, "jest") \/ Flag(c.options, "vitest"))) =>
      /\ \A n \in { "jest", "vitest" } :
           HasNamed(c.result, n) =>
             /\ IndexOfNamed(c.result, "overrides/js-ts") < IndexOfNamed(c.result, n)
             /\ Named(c.result, n).files = TestGlobs(TestsDirOf(c.options), "?(c|m)[jt]s?(x)")
      /\ \A f \in SampleFiles :
           MatchesAny(TestGlobs(TestsDirOf(c.options), "?(c|m)[jt]s?(x)"), f) =>
             Effective(heap, c.result, f, "no-console") = S("error")

\* a call with vitest only and policy 'allow' has returned: 'no-console' is
\* 'error' for a test file and not set for a source file
C26_Witness ==
  \E c \in Completed :
    /\ IsCurrent(c) /\ Flag(c.options, "vitest") /\ ~Flag(c.options, "jest")
    /\ ConsoleOf(c.options) = "allow"
    /\ \E f, g \in SampleFiles :
         /\ MatchesAny(TestGlobs(TestsDirOf(c.options), "?(c|m)[jt]s?(x)"), f)
         /\ Effective(heap, c.result, f, "no-console") = S("error")
         /\ Effective(heap, c.result, g, "no-console") = Unset

\* the fragment whose value of `key` stands for file f (0 when none sets it)
LastSetter(h, result, f, key) ==
  LET setters == { j \in 1..Len(result) :
                     /\ Applies(result[j], f)
                     /\ key \in DOMAIN Deref(h, result[j].rules) }
  IN IF setters = {} THEN 0 ELSE CHOOSE j \in setters : \A k \in setters : k <= j

\* the test fragments of the earlier customize sit right after the four base
\* fragments, the three override fragments right after them
TestIndexesV1(o) == 5..(4 + Count(Flag(o, "jest")) + Count(Flag(o, "vitest")))
OverridesJsTsIndexV1(o) == 4 + Count(Flag(o, "jest")) + Count(Flag(o, "vitest")) + 3

IsTestFileV1(c, f) ==
  \E j \in TestIndexesV1(c.options) : MatchesAny(c.result[j].files, f)

\* C27: in the earlier customize the jest and vitest fragments precede the
\* three override fragments; for a JavaScript or TypeScript file they match,
\* 'no-console' is the js/ts override fragment's value under policy 'ban'
\* ('error') and 'ban-log' ('error' with the allow list), and the test
\* fragment's 'error' under policy 'allow'
C27_OverridesReplaceTestBan ==
  \A c \in Completed :
    (IsV1(c) /\ (Flag(c.options, "jest") \/ Flag(c.options, "vitest"))) =>
      \A f \in SampleFiles :
        IsTestFileV1(c, f) =>
          /\ ConsoleOf(c.options) = "ban" =>
               /\ LastSetter(heap, c.result, f, "no-console") = OverridesJsTsIndexV1(c.options)
               /\ Effective(heap, c.result, f, "no-console") = S("error")
          /\ ConsoleOf(c.options) = "ban-log" =>
               /\ LastSetter(heap, c.result, f, "no-console") = OverridesJsTsIndexV1(c.options)
               /\ Effective(heap, c.result, f, "no-console") =
                    A(<< S("error"), O("{ allow: ['error', 'warn', 'info'] }") >>)
          /\ ConsoleOf(c.options) = "allow" =>
               /\ LastSetter(heap, c.result, f, "no-console") \in TestIndexesV1(c.options)
               /\ Effective(heap, c.result, f, "no-console") = S("error")

\* the earlier customize returned with jest under policy 'ban-log', and a
\* test file gets the allow list of the override fragment
C27_Witness ==
  \E c \in Completed :
    /\ IsV1(c) /\ Flag(c.options, "jest")
    /\ ConsoleOf(c.options) = "ban-log"
    /\ \E f \in SampleFiles :
         /\ IsTestFileV1(c, f)
         /\ Effective(heap, c.result, f, "no-console") =
              A(<< S("error"), O("{ allow: ['error', 'warn', 'info'] }") >>)

\* the earlier customize returned with vitest under policy 'allow', and the
\* test fragment's 'error' stands for a test file
C27_WitnessAllow ==
  \E c \in Completed :
    /\ IsV1(c) /\ Flag(c.options, "vitest")
    /\ ConsoleOf(c.options) = "allow"
    /\ \E f \in SampleFiles :
         /\ IsTestFileV1(c, f)
         /\ LastSetter(heap, c.result, f, "no-console") \in TestIndexesV1(c.options)

CypressOf(result) == result[IndexOfCypress(result)]

\* C28: for every content of the cypress plugin's recommended config, the
\* cypress fragment has name 'cypress', its files are the three test globs
\* of testsDir, and its rules are the recommended rules with
\* 'mocha/no-mocha-arrows': 'off' on top
C28_CypressFragmentShape ==
  \A c \in Completed :
    (IsCurrent(c) /\ Flag(c.options, "cypress")) =>
      /\ HasCypress(c.result)
      /\ CypressOf(c.result).name = "cypress"
      /\ CypressOf(c.result).files = TestGlobs(TestsDirOf(c.options), "?(c|m)[jt]s")
      /\ CypressOf(c.result).rules =
           Spread(cypressRecommended.rules, ( "mocha/no-mocha-arrows" :> S("off") ))

\* what holds for every content: the rules; name and files are the
\* plugin's whenever its recommended config has them
CypressFragmentFollowsPlugin ==
  \A c \in Completed :
    (IsCurrent(c) /\ Flag(c.options, "cypress")) =>
      /\ HasCypress(c.result)
      /\ CypressOf(c.result).rules =
           Spread(cypressRecommended.rules, ( "mocha/no-mocha-arrows" :> S("off") ))
      /\ CypressOf(c.result).name =
           IF "name" \in DOMAIN cypressRecommended THEN cypressRecommended.name ELSE "cypress"
      /\ CypressOf(c.result).files =
           IF "files" \in DOMAIN cypressRecommended THEN cypressRecommended.files
           ELSE TestGlobs(TestsDirOf(c.options), "?(c|m)[jt]s")

\* ------------------------------------------- further claims on the modules
SevenTypescriptOnlyKeys ==
  { "prefer-array-literal", "no-function-constructor-with-string-args",
    "no-increment-decrement", "no-unused-variable", "no-boolean-literal-compare",
    "function-name", "import-name" }

\* C29: in the module without import ordering, jsRules has exactly the keys
\* of rules other than the seven typescript-only keys, each with the value
\* it has in rules, and rules is still the whole merge: the deletes on the
\* copy took nothing from it
C29_JsRulesCopyWithoutSeven ==
  LoadedV1 =>
    LET rules == bindings.tslintV1.rules
        jsRules == bindings.tslintV1.jsRules
    IN /\ DOMAIN jsRules = DOMAIN rules \ SevenTypescriptOnlyKeys
       /\ \A k \in DOMAIN rules \ SevenTypescriptOnlyKeys : jsRules[k] = rules[k]
       /\ DOMAIN jsRules \subseteq DOMAIN rules
       /\ rules = Spread(Spread(host.rulesAirbnb, host.rulesReact), OverridesV1)
       /\ { "no-increment-decrement", "no-unused-variable", "import-name" } \subseteq DOMAIN rules
       /\ \A k \in SevenTypescriptOnlyKeys \cap DOMAIN host.rulesAirbnb : k \in DOMAIN rules

\* the module is loaded on a host whose airbnb rule set defines
\* 'function-name' and 'prefer-array-literal': rules has five of the seven
\* keys, jsRules none, and both have 'no-console'
C29_Witness ==
  /\ LoadedV1
  /\ { "function-name", "prefer-array-literal" } \subseteq DOMAIN host.rulesAirbnb
  /\ Cardinality(SevenTypescriptOnlyKeys \cap DOMAIN bindings.tslintV1.rules) = 5
  /\ SevenTypescriptOnlyKeys \cap DOMAIN bindings.tslintV1.jsRules = {}
  /\ "no-console" \in DOMAIN bindings.tslintV1.jsRules
  /\ "no-console" \in DOMAIN bindings.tslintV1.rules

AliasedName == "aliased paths (which begin with tilde [~] in our convention)"

\* the rank the claim gives each group
RankOf ==
  ( "built-in node modules" :> 10 @@ "dependencies" :> 20 @@ AliasedName :> 30 @@
    "absolute imports" :> 40 @@ "parent directories" :> 50 @@ "current directory" :> 60 )

\* import paths: aliased, parent, current, hidden, scoped, bare names,
\* built-in names, and strings that mix the prefixes
GroupProbes ==
  { << >>, << "~" >>, << "~", "/", "a" >>, << "~", ".", "." >>, << "~", "f", "s" >>,
    << ".", "." >>, << ".", ".", "/", "a" >>, << ".", ".", "~" >>, << ".", ".", "." >>,
    << "." >>, << ".", "/", "a" >>, << ".", "~" >>, << ".", "f", "s" >>,
    << "@", "a", "/", "b" >>, << "/", "a" >>, << "a", "~" >>, << "a", ".", "." >>,
    Fs, Path, FsPromises, Sys, StreamWrap, Lodash, LeftPad, SocketIo,
    Path \o << "/", "p", "o", "s", "i", "x" >>, Lodash \o << "/", "f", "p" >> }

MatchingGroups(groups, p) == { i \in 1..Len(groups) : Matches(groups[i].match, p) }

\* the name of the first group in list order whose pattern matches p
FirstMatch(groups, p) == groups[Least(MatchingGroups(groups, p))].name

IndexOfGroup(groups, n) == CHOOSE i \in 1..Len(groups) : groups[i].name = n

\* C30: the groups' order values are pairwise distinct and are 10 built-in,
\* 20 dependencies, 30 aliased, 40 absolute, 50 parent, 60 current; every
\* import path is matched by some group, the 'absolute imports' pattern
\* matching any string; and the first group in list order that matches is
\* 'aliased' for a path starting with '~', 'parent directories' for one
\* starting with '..', 'current directory' for any other starting with '.',
\* and 'built-in node modules', placed before 'dependencies', for a name
\* both patterns match
C30_GroupsRankedAndTotal ==
  ImportGroupsBound =>
    LET groups == bindings.importGroups
    IN /\ \A i, j \in 1..Len(groups) : i # j => groups[i].order # groups[j].order
       /\ \A i \in 1..Len(groups) :
            groups[i].name \in DOMAIN RankOf /\ groups[i].order = RankOf[groups[i].name]
       /\ \A p \in GroupProbes :
            /\ MatchingGroups(groups, p) # {}
            /\ Matches(groups[IndexOfGroup(groups, "absolute imports")].match, p)
            /\ StartsWith(p, << "~" >>) => FirstMatch(groups, p) = AliasedName
            /\ StartsWith(p, << ".", "." >>) => FirstMatch(groups, p) = "parent directories"
            /\ (StartsWith(p, << "." >>) /\ ~StartsWith(p, << ".", "." >>)) =>
                 FirstMatch(groups, p) = "current directory"
            /\ (/\ HasDependenciesGroup(groups)
                /\ Matches(groups[IndexOfGroup(groups, "built-in node modules")].match, p)
                /\ Matches(groups[IndexOfGroup(groups, "dependencies")].match, p)) =>
                 /\ FirstMatch(groups, p) = "built-in node modules"
                 /\ IndexOfGroup(groups, "built-in node modules")
                      < IndexOfGroup(groups, "dependencies")

\* the list was built with a 'dependencies' group on a host where 'path' is
\* an enabled built-in module and a declared dependency: both patterns
\* match 'path', and '../a' is matched by three groups
C30_Witness ==
  /\ ImportGroupsBound
  /\ HasDependenciesGroup(bindings.importGroups)
  /\ Len(bindings.importGroups) = 6
  /\ Matches(bindings.importGroups[4].match, Path)
  /\ Matches(bindings.importGroups[5].match, Path)
  /\ Cardinality(MatchingGroups(bindings.importGroups, << ".", ".", "/", "a" >>)) = 3

====
